---- MODULE Spec2Model ----
(***************************************************************************)
(* A model of falcon_autocrud/resource.py: the collection and single       *)
(* resource handlers over one mapped model ("parents") that has a          *)
(* one-to-many relationship "children" and a one-to-one relationship       *)
(* "profile".  The two related tables are kept in one map, subs, whose     *)
(* rows carry the relationship they belong to.                             *)
(*                                                                         *)
(* parents : primary key -> [name, deleted, parents_id]                    *)
(*             name        unique string column                            *)
(*             deleted     integer column (0/1), not unique                *)
(*             parents_id  the attribute "<tablename>_id" of the parent,   *)
(*                         when the schema declares one (see schema)       *)
(* subs    : primary key -> [rel, fk, x]                                   *)
(*             rel         "children" or "profile"                         *)
(*             fk          foreign key to parents (0 is NULL)              *)
(*             x           integer column, unique within its table         *)
(*                                                                         *)
(* parents and subs are the COMMITTED rows, what another transaction      *)
(* sees.  sess is the handler's session: its uncommitted view.             *)
(*                                                                         *)
(* The ORM is SQLAlchemy 1.x, the one the code is written for: commit()    *)
(* and rollback() act on the innermost transaction, so the first commit    *)
(* after begin_nested() releases the SAVEPOINT and the second one COMMITs. *)
(* Constraints are checked when a statement is flushed.                    *)
(***************************************************************************)
EXTENDS Integers, Sequences, FiniteSets, TLC

VARIABLES schema, parents, subs, pc, sess, cur, resp

vars == <<schema, parents, subs, pc, sess, cur, resp>>

(* ---------------------------------------------------------------- bounds *)
MaxParents == 2
MaxSubs == 2
MaxK == 2

Names == {"a", "b"}
Xs == 1..2

(* How the attribute "<parent tablename>_id" is declared (on_post reads it *)
(* from both sides at lines 429-436):                                       *)
(*   nobackfill  the sub-resource classes have no such attribute            *)
(*   pk          they have it, and on the parent it is the primary key      *)
(*   column      they have it, and on the parent it is another column       *)
(*   absent      they have it, and the parent has no such attribute         *)
Schemas == {"nobackfill", "pk", "column", "absent"}

Rels == {"children", "profile"}

(* relationship.uselist of the mapper, read at lines 248, 406, 590, 858 *)
UseList(key) == key = "children"

EmptyTable == [k \in {} |-> 0]

Max(S) == CHOOSE m \in S : \A n \in S : n <= m

(* The primary key the store gives the next inserted row. *)
NextPk(table) == IF DOMAIN table = {} THEN 1 ELSE Max(DOMAIN table) + 1

(* ------------------------------------------------------ the mapped model *)
(* mapper.columns of a mapped class: "parents", or the class of a          *)
(* relationship (relationship.mapper.entity).                              *)
Columns(model) ==
    IF model = "parents"
    THEN {"id", "name", "deleted"}
           \cup (IF schema \in {"pk", "column"} THEN {"parents_id"} ELSE {})
    ELSE {"id", "fk", "x"}

(* mapper.relationships of a mapped class *)
Relationships(model) == IF model = "parents" THEN Rels ELSE {}

(* Class attributes that are neither columns nor relationships: a Python   *)
(* property ("fullname") and the declarative class's "metadata".           *)
Properties(model) == IF model = "parents" THEN {"fullname"} ELSE {}
OtherAttributes(model) == Properties(model) \cup {"metadata"}

(* What getattr(model, key, None) and inspect(model).attrs[key] give       *)
(* (lines 123-124, 202-203, 226):                                          *)
(*   column        an attribute whose attrs[key] is a ColumnProperty       *)
(*   relationship  an attribute whose attrs[key] is no ColumnProperty      *)
(*   other         getattr gives something, attrs[key] raises KeyError     *)
(*   absent        getattr gives None                                      *)
AttrKind(model, key) ==
    CASE key \in Columns(model) -> "column"
      [] key \in Relationships(model) -> "relationship"
      [] key \in OtherAttributes(model) -> "other"
      [] OTHER -> "absent"

(* getattr(resource, key) of a parent row, key a column *)
ColumnValue(pk, row, key) ==
    CASE key = "id" -> pk
      [] key = "name" -> row.name
      [] key = "deleted" -> row.deleted
      [] key = "parents_id" -> IF schema = "pk" THEN pk ELSE row.parents_id

(* The constraints of the store, whose violation the ORM raises as         *)
(* IntegrityError (caught at lines 441, 533, 723, 774, 879): name is       *)
(* unique, x is unique within its table (0 is NULL), a parent has at most  *)
(* one profile, and a foreign key is NULL or names a parent.               *)
IntegrityOK(ps, ss) ==
    /\ \A p, q \in DOMAIN ps : ps[p].name = ps[q].name => p = q
    /\ \A s, t \in DOMAIN ss :
          (ss[s].rel = ss[t].rel /\ ss[s].x # 0 /\ ss[s].x = ss[t].x) => s = t
    /\ \A s, t \in DOMAIN ss :
          (/\ ss[s].rel = "profile" /\ ss[t].rel = "profile"
           /\ ss[s].fk # 0 /\ ss[s].fk = ss[t].fk) => s = t
    /\ \A s \in DOMAIN ss : ss[s].fk = 0 \/ ss[s].fk \in DOMAIN ps

(* ------------------------------------------------------------- serialize *)
(* BaseResource.serialize with response_fields None: every column.         *)
Serialize(pk, row) ==
    [id |-> pk, name |-> row.name, deleted |-> row.deleted,
     parents_id |-> ColumnValue(pk, row, "parents_id")]

SerializeSub(pk, row) == [id |-> pk, fk |-> row.fk, x |-> row.x]

(* Python values whose type the code depends on *)
PyDict(d) == [type |-> "dict", val |-> d]
PyList(l) == [type |-> "list", val |-> l]

(* ----------------------------------------------------------- deserialize *)
(* A JSON object is a sequence of items [key, value] (its keys in order);  *)
(* a dict of attributes is a function from its keys.                       *)
EmptyDict == [k \in {} |-> 0]

(* Whether the loop at lines 233-290 (single = FALSE) or 571-632 (single =  *)
(* TRUE) puts the key into attributes: "pk" (line 573, single resource     *)
(* only), a property (line 234 looks at the model being deserialized, line *)
(* 576 at self.model), or a column.                                        *)
IsAttributeKey(model, key, single) ==
    \/ single /\ key = "pk"
    \/ key \in Properties(IF single THEN "parents" ELSE model)
    \/ key \in Columns(model)

RECURSIVE ColumnItems(_, _, _)
ColumnItems(model, data, single) ==
    IF data = <<>> THEN EmptyDict
    ELSE LET rest == ColumnItems(model, Tail(data), single)
             item == Head(data)
         IN  IF IsAttributeKey(model, item.key, single)
             THEN rest @@ (item.key :> item.value)
             ELSE rest

RECURSIVE NestedAttributes(_, _, _)
(* [self.deserialize(entity, False, ...)[0] for entity in value] *)
NestedAttributes(model, value, single) ==
    IF value = <<>> THEN <<>>
    ELSE <<ColumnItems(model, Head(value), single)>>
            \o NestedAttributes(model, Tail(value), single)

RECURSIVE LinkedItems(_, _, _, _)
(* The relationship branch, lines 246-253 / 588-595: taken only when       *)
(* allow_recursion, for a key that is no column.  A list-valued key with   *)
(* an empty list assigns nothing (the for loop at line 249 / 591).         *)
LinkedItems(model, data, allow_recursion, single) ==
    IF data = <<>> \/ ~allow_recursion THEN <<>>
    ELSE LET rest == LinkedItems(model, Tail(data), allow_recursion, single)
             item == Head(data)
         IN  IF \/ IsAttributeKey(model, item.key, single)
                \/ item.key \notin Relationships(model)
             THEN rest
             ELSE IF UseList(item.key)
                  THEN IF item.value = <<>> THEN rest
                       ELSE <<[key |-> item.key,
                               value |-> NestedAttributes(item.key, item.value, single)]>>
                               \o rest
                  ELSE <<[key |-> item.key,
                          value |-> ColumnItems(item.key, item.value, single)]>> \o rest

(* CollectionResource.deserialize with the path arguments written last *)
CollectionDeserialize_PathLast(model, path_data, body_data, allow_recursion) ==
    PyList(<<path_data @@ ColumnItems(model, body_data, FALSE),
             LinkedItems(model, body_data, allow_recursion, FALSE)>>)

(* CollectionResource.deserialize: path_data first, then the body, which   *)
(* overrides it.  Returns the list [attributes, linked].                   *)
CollectionDeserialize(model, path_data, body_data, allow_recursion) ==
    PyList(<<ColumnItems(model, body_data, FALSE) @@ path_data,
             LinkedItems(model, body_data, allow_recursion, FALSE)>>)

(* SingleResource.deserialize: returns the list [attributes, linked]. *)
SingleDeserialize(data, allow_recursion) ==
    PyList(<<ColumnItems("parents", data, TRUE),
             LinkedItems("parents", data, allow_recursion, TRUE)>>)

(* BaseResource.apply_default_attributes, lines 209-213.  On a dict it     *)
(* fills the absent keys; on a list "key not in attributes" is true and    *)
(* the item assignment raises TypeError.                                   *)
ApplyDefaultAttributes(defaults, attributes) ==
    IF DOMAIN defaults = {} THEN [exc |-> "", val |-> attributes]
    ELSE IF attributes.type = "dict"
         THEN [exc |-> "", val |-> PyDict(attributes.val @@ defaults)]
         ELSE [exc |-> "TypeError", val |-> attributes]

(* attributes.items(): a list has none (AttributeError) *)
Items(attributes) ==
    IF attributes.type = "dict" THEN [exc |-> "", val |-> attributes.val]
    ELSE [exc |-> "AttributeError", val |-> EmptyDict]

(* update_resource, lines 34-37, on a parent row: setattr of every key;    *)
(* a key that is no column of the row leaves the row as it is.             *)
UpdateResource(row, attributes) ==
    [k \in DOMAIN row |-> IF k \in DOMAIN attributes THEN attributes[k] ELSE row[k]]

(* ------------------------------------------------------ filter_by_params *)
(* A filter parameter is [parts, value]: parts is filter_key.split('__'),  *)
(* value the query-string value (a string; for "in" a set of strings).     *)
Ops == {"=", "in", "null", "startswith", "contains", "lt", "lte", "gt", "gte"}

(* The store's coercion of a query-string value compared with an integer   *)
(* column.                                                                 *)
ToInt(str) == CASE str = "0" -> 0 [] str = "1" -> 1 [] str = "2" -> 2 [] str = "3" -> 3

(* The characters of the strings that occur as names and as filter values *)
Chars(str) ==
    CASE str = "" -> <<>>
      [] str = "a" -> <<"a">>
      [] str = "b" -> <<"b">>
      [] str = "A" -> <<"A">>
      [] str = "B" -> <<"B">>
      [] str = "ab" -> <<"a", "b">>
      [] str = "ba" -> <<"b", "a">>
      [] str = "AB" -> <<"A", "B">>
      [] str = "_" -> <<"_">>
      [] str = "%" -> <<"%">>
      [] str = "a_" -> <<"a", "_">>
      [] str = "%b" -> <<"%", "b">>

Lower(c) == CASE c = "A" -> "a" [] c = "B" -> "b" [] OTHER -> c

RECURSIVE Like(_, _)
(* text ILIKE pattern, on characters: '%' in the pattern matches any run   *)
(* of characters, '_' any one character, any other character itself,      *)
(* whatever the case.                                                      *)
Like(text, pattern) ==
    IF pattern = <<>> THEN text = <<>>
    ELSE IF Head(pattern) = "%"
         THEN Like(text, Tail(pattern)) \/ (text # <<>> /\ Like(Tail(text), pattern))
         ELSE /\ text # <<>>
              /\ Head(pattern) = "_" \/ Lower(Head(pattern)) = Lower(Head(text))
              /\ Like(Tail(text), Tail(pattern))

(* attr.ilike('{0}%'.format(value)), line 138, and                         *)
(* attr.ilike('%{0}%'.format(value)), line 140                             *)
ILikeStartsWith(text, value) == Like(Chars(text), Chars(value) \o <<"%">>)
(* A faulty variant of ILikeContains: the pattern is anchored at the start. *)
ILikeContains_Anchored(text, value) == Like(Chars(text), Chars(value) \o <<"%">>)

ILikeContains(text, value) == Like(Chars(text), <<"%">> \o Chars(value) \o <<"%">>)

IsNull(pk, row, key) == key = "parents_id" /\ schema = "column" /\ row.parents_id = 0

(* The list a comma-separated parameter value is parsed to (req.params) *)
CsvValues(value) ==
    CASE value = "a,B" -> {"a", "B"}
      [] value = "1,3" -> {"1", "3"}

(* One clause, lines 127-147, on one row. *)
Clause(pk, row, key, comparison, value) ==
    CASE comparison = "=" ->
            IF key = "name" THEN row.name = value
            ELSE ColumnValue(pk, row, key) = ToInt(value)
      [] comparison = "in" ->
            IF key = "name" THEN row.name \in CsvValues(value)
            ELSE ColumnValue(pk, row, key) \in {ToInt(v) : v \in CsvValues(value)}
      [] comparison = "null" ->
            IF value # "0" THEN IsNull(pk, row, key) ELSE ~IsNull(pk, row, key)
      [] comparison = "startswith" -> ILikeStartsWith(row.name, value)
      [] comparison = "contains" -> ILikeContains(row.name, value)
      [] comparison = "lt" -> ColumnValue(pk, row, key) < ToInt(value)
      [] comparison = "lte" -> ColumnValue(pk, row, key) <= ToInt(value)
      [] comparison = "gt" -> ColumnValue(pk, row, key) > ToInt(value)
      [] comparison = "gte" -> ColumnValue(pk, row, key) >= ToInt(value)

(* The validation of one filter key, lines 111-126 and 148-149: "skip" for *)
(* a key starting with '__', "" for a valid clause, else what is raised.   *)
FilterKeyError(parts) ==
    IF Len(parts) >= 2 /\ parts[1] = "" THEN "skip"
    ELSE IF Len(parts) > 2 THEN "BadRequest"
    ELSE IF AttrKind("parents", parts[1]) = "absent" THEN "BadRequest"
    ELSE IF AttrKind("parents", parts[1]) = "other" THEN "KeyError"
    ELSE IF AttrKind("parents", parts[1]) # "column" THEN "BadRequest"
    ELSE IF Len(parts) = 2 /\ parts[2] \notin Ops THEN "BadRequest"
    ELSE ""

RECURSIVE FilterByParams(_, _, _)
(* BaseResource.filter_by_params, lines 109-150, on the rows (primary      *)
(* keys) of a query over the table ps: [exc, rows].                        *)
FilterByParams(ps, rows, params) ==
    IF params = <<>> THEN [exc |-> "", rows |-> rows]
    ELSE LET p == Head(params)
             e == FilterKeyError(p.parts)
             comparison == IF Len(p.parts) = 1 THEN "=" ELSE p.parts[2]
         IN  IF e = "skip" THEN FilterByParams(ps, rows, Tail(params))
             ELSE IF e # "" THEN [exc |-> e, rows |-> {}]
             ELSE FilterByParams(
                      ps,
                      {pk \in rows : Clause(pk, ps[pk], p.parts[1], comparison, p.value)},
                      Tail(params))

(* BaseResource.apply_arg_filter, lines 196-207, for one path argument     *)
(* bound to a column.                                                      *)
(* A faulty variant of ApplyArgFilter: the comparison is negated. *)
ApplyArgFilter_Negated(ps, kwargs) ==
    {pk \in DOMAIN ps : ColumnValue(pk, ps[pk], kwargs.key) # kwargs.value}

ApplyArgFilter(ps, kwargs) ==
    {pk \in DOMAIN ps : ColumnValue(pk, ps[pk], kwargs.key) = kwargs.value}

(* Query.one(), lines 654-659 and alike *)
One(rows) ==
    IF rows = {} THEN "NoResultFound"
    ELSE IF Cardinality(rows) > 1 THEN "MultipleResultsFound"
    ELSE "one"

(* A faulty variant of LocateStatus: several rows answer like none. *)
LocateStatus_NotFound(outcome) == "NotFound"

(* The status of a failed initial lookup, lines 655-659, 694-698, 758-762, *)
(* 820-824.                                                                *)
LocateStatus(outcome) ==
    IF outcome = "NoResultFound" THEN "NotFound" ELSE "InternalServerError"

(* delete_precondition / patch_precondition, lines 677-678 and 800-801:    *)
(* the identity unless the resource overrides it; the override modelled    *)
(* keeps the rows that are not marked deleted.                             *)
Precondition(precond, ps, rows) ==
    IF precond = "none" THEN rows ELSE {pk \in rows : ps[pk].deleted = 0}

(* The mark_deleted hook of a resource that soft-deletes, called at line   *)
(* 717.                                                                    *)
MarkDeleted(row) == [row EXCEPT !.deleted = 1]

(* ------------------------------------------------------------ the session *)
(* depth 0: no session; 1: in the outer transaction; 2: inside the         *)
(* SAVEPOINT of begin_nested().  parents/subs: the rows as the session     *)
(* sees them; sp_parents/sp_subs: the rows at the SAVEPOINT.               *)
NoSess ==
    [depth |-> 0, parents |-> EmptyTable, subs |-> EmptyTable,
     sp_parents |-> EmptyTable, sp_subs |-> EmptyTable]

(* session_scope entry: a session on the committed rows *)
Begin(ps, ss) == [NoSess EXCEPT !.depth = 1, !.parents = ps, !.subs = ss]

(* db_session.begin_nested(), line 398 *)
BeginNested(s) == [s EXCEPT !.depth = 2, !.sp_parents = s.parents, !.sp_subs = s.subs]

(* db_session.rollback(), lines 446, 449, 455: the innermost transaction.  *)
(* ps, ss are the committed rows.                                          *)
Rollback(s, ps, ss) ==
    IF s.depth = 2
    THEN [NoSess EXCEPT !.depth = 1, !.parents = s.sp_parents, !.subs = s.sp_subs]
    ELSE Begin(ps, ss)

(* db_session.commit() inside the SAVEPOINT, line 419: releases it *)
ReleaseSavepoint(s) ==
    [s EXCEPT !.depth = 1, !.sp_parents = EmptyTable, !.sp_subs = EmptyTable]

(* The committed rows, as a pair *)
Rows(ps, ss) == [parents |-> ps, subs |-> ss]

(* db_session.commit() in the outer transaction, lines 440, 722, 773, 878: *)
(* the session's rows become the committed rows.                           *)
Commit(s) == Rows(s.parents, s.subs)

(* The end of "with session_scope(...)": commit on a normal exit, rollback *)
(* when the handler raised, then close.  s is the session, db the rows     *)
(* committed so far; gives the rows committed afterwards.                  *)
SessionScopeExit(s, db, raised) ==
    IF raised \/ s.depth # 1 THEN db ELSE Commit(s)

(* ------------------------------------------------------------- responses *)
NoData == PyDict(EmptyDict)
NoReq == [op |-> "none", pk |-> 0, created |-> <<>>]

(* op      the handler                                                     *)
(* status  the HTTP status of the response                                 *)
(* exc     the exception that left the handler uncaught, "" if none or an  *)
(*         HTTP error                                                      *)
(* stage   where the handler ended                                         *)
(* pk      the primary key of the located or created row, 0 if none        *)
(* data    req.context['result']['data']                                   *)
Response(op, status, exc, stage, pk, data) ==
    [op |-> op, status |-> status, exc |-> exc, stage |-> stage, pk |-> pk,
     data |-> data]

(* The request ends: the response r and the rows committed once the        *)
(* session scope is left, s being the session and db the rows the handler  *)
(* has committed.                                                          *)
Outcome(r, s, db, raised) == [resp |-> r, rows |-> SessionScopeExit(s, db, raised)]

(* The response o.resp is returned and the rows o.rows are the committed   *)
(* rows.                                                                   *)
Finish(o) ==
    \E out \in {o} :
        /\ resp' = out.resp
        /\ parents' = out.rows.parents
        /\ subs' = out.rows.subs
        /\ pc' = "idle"
        /\ sess' = NoSess
        /\ cur' = NoReq
        /\ UNCHANGED schema

(* A faulty variant of WriteErrorStatus: the IntegrityError is raised      *)
(* again like any other exception.                                         *)
WriteErrorStatus_Reraised(exc) == "InternalServerError"

(* The except clauses of on_post, lines 441-456, of on_put, lines 774-789, *)
(* and of on_patch, lines 879-894: IntegrityError ends as Conflict,        *)
(* anything else is raised again.                                          *)
WriteErrorStatus(exc) ==
    IF exc = "IntegrityError" THEN "Conflict" ELSE "InternalServerError"

(* The except clauses of on_delete, lines 723-732: no bare except. *)
DeleteErrorStatus(exc) ==
    IF exc = "IntegrityError" THEN "Conflict" ELSE "InternalServerError"

(* The response to an exception raised inside a try block of a handler *)
Caught(op, status, exc, stage, pk) ==
    Response(op, status, IF status = "InternalServerError" THEN exc ELSE "",
             stage, pk, NoData)

(* The response to an exception raised outside any try block: an HTTP      *)
(* error keeps its status, any other exception is a server fault.          *)
Raised(op, exc, stage, pk) ==
    IF exc = "BadRequest" THEN Response(op, "BadRequest", "", stage, pk, NoData)
    ELSE Response(op, "InternalServerError", exc, stage, pk, NoData)

(* ------------------------------------------------ CollectionResource.on_post *)
SeqsUpTo(S, n) == UNION {[1..k -> S] : k \in 0..n}

Item(key, value) == [key |-> key, value |-> value]

(* The request bodies of a create: a name, in the "column" schema maybe a  *)
(* parents_id, and nested payloads under "children", under "profile", or   *)
(* under both.                                                             *)
SubPayloads == {<<Item("x", x)>> : x \in Xs}
ChildrenItems == {<<Item("children", l)>> : l \in SeqsUpTo(SubPayloads, MaxK)}
ProfileItems == {<<Item("profile", p)>> : p \in SubPayloads}
LinkedBodies ==
    {<<>>} \cup ChildrenItems \cup ProfileItems
      \cup {c \o q : c \in ChildrenItems, q \in ProfileItems}
RefItems == IF schema = "column" THEN {<<>>, <<Item("parents_id", 1)>>} ELSE {<<>>}
PostBodies ==
    {<<Item("name", n)>> \o r \o l : n \in Names, r \in RefItems, l \in LinkedBodies}

(* The bodies that give a name and nothing else *)
PlainBodies == {body \in PostBodies : Len(body) = 1}

(* The configured post_defaults of the resource (none, or a setter for     *)
(* "deleted"), as the values the setters give.                             *)
DefaultsChoices == {EmptyDict, "deleted" :> 1}

(* The entity built from the attributes, line 389: a column they do not   *)
(* give takes its default (deleted 0, parents_id NULL).                    *)
NewParent(attributes) ==
    [name |-> attributes["name"],
     deleted |-> IF "deleted" \in DOMAIN attributes THEN attributes["deleted"] ELSE 0,
     parents_id |-> IF "parents_id" \in DOMAIN attributes
                    THEN attributes["parents_id"] ELSE 0]

(* The sub-resource built from its attributes, lines 408 and 413, once     *)
(* flushed: the relationship gives the row its foreign key.                *)
NewSub(key, attributes, fk) ==
    [rel |-> key, fk |-> fk,
     x |-> IF "x" \in DOMAIN attributes THEN attributes["x"] ELSE 0]

RECURSIVE OneToMany(_, _)
OneToMany(key, value) ==
    IF value = <<>> THEN <<>>
    ELSE <<[key |-> key, type |-> "onetomany", attributes |-> Head(value), pk |-> 0]>>
            \o OneToMany(key, Tail(value))

RECURSIVE SubresourcesCreated(_)
(* The loop at lines 403-416: subresources_created, in the order of        *)
(* linked.items().                                                         *)
SubresourcesCreated(linked) ==
    IF linked = <<>> THEN <<>>
    ELSE LET e == Head(linked)
         IN  (IF UseList(e.key) THEN OneToMany(e.key, e.value)
              ELSE <<[key |-> e.key, type |-> "onetoone",
                      attributes |-> e.value, pk |-> 0]>>)
             \o SubresourcesCreated(Tail(linked))

(* The flush of the pending sub-resources at the inner commit: each is     *)
(* inserted under the next primary key, with the parent's key as foreign   *)
(* key.                                                                    *)
FlushedPk(ss, i) == NextPk(ss) + i - 1

FlushCreated(ss, created) ==
    [i \in 1..Len(created) |-> [created[i] EXCEPT !.pk = FlushedPk(ss, i)]]

FlushSubs(ss, created, parentPk) ==
    [pk \in DOMAIN ss \cup {FlushedPk(ss, i) : i \in 1..Len(created)} |->
        IF pk \in DOMAIN ss THEN ss[pk]
        ELSE LET i == pk - NextPk(ss) + 1
             IN  NewSub(created[i].key, created[i].attributes, parentPk)]

(* Lines 422-436, for schemas whose parent has no "<subtable>_id"          *)
(* attribute: when the sub-resource has the attribute "parents_id" it is   *)
(* set to getattr(resource, "parents_id").                                 *)
BackfillRaises(created) == created # <<>> /\ schema = "absent"

Backfill(ss, created, parentPk, parentRow) ==
    IF schema = "nobackfill" THEN ss
    ELSE [pk \in DOMAIN ss |->
            IF \E i \in 1..Len(created) : created[i].pk = pk
            THEN [ss[pk] EXCEPT !.fk = ColumnValue(parentPk, parentRow, "parents_id")]
            ELSE ss[pk]]

RECURSIVE WithSubresources(_, _, _)
(* Lines 463-464: data[relationship_key] = serialize(subresource), one     *)
(* assignment per created sub-resource, in order.                          *)
WithSubresources(data, created, ss) ==
    IF created = <<>> THEN data
    ELSE LET c == Head(created)
         IN  WithSubresources(
                 (c.key :> PyDict(SerializeSub(c.pk, ss[c.pk]))) @@ data,
                 Tail(created), ss)

(* Lines 402-416: subresources_created for the nested payloads of a body *)
PostCreated(body) ==
    SubresourcesCreated(CollectionDeserialize("parents", EmptyDict, body, TRUE).val[2])

(* Lines 384-398: deserialize, defaults, the entity, add, begin_nested:    *)
(* the session once the entity is flushed.                                 *)
PostFlush(ps, ss, body, post_defaults) ==
    LET d == CollectionDeserialize("parents", EmptyDict, body, TRUE)
        attributes == ApplyDefaultAttributes(post_defaults, PyDict(d.val[1])).val.val
    IN  [Begin(ps, ss) EXCEPT !.parents = (NextPk(ps) :> NewParent(attributes)) @@ ps]

(* The flush of begin_nested raises an IntegrityError, caught at line 441 *)
PostFlushRaises(ps, ss, body, post_defaults) ==
    LET s1 == PostFlush(ps, ss, body, post_defaults)
    IN  ~IntegrityOK(s1.parents, s1.subs)

(* The outcome of a create whose flush raised *)
PostFlushOutcome(ps, ss) ==
    Outcome(Caught("post", WriteErrorStatus("IntegrityError"), "IntegrityError",
                   "begin_nested", 0),
            Rollback(Begin(ps, ss), ps, ss), Rows(ps, ss), TRUE)

(* Lines 384-416: up to the sub-resources added to the session *)
PostBegin(body, post_defaults) ==
    /\ pc = "idle"
    /\ NextPk(parents) <= MaxParents
    /\ NextPk(subs) + Len(PostCreated(body)) - 1 <= MaxSubs
    /\ IF PostFlushRaises(parents, subs, body, post_defaults)
       THEN Finish(PostFlushOutcome(parents, subs))
       ELSE /\ pc' = "inner_commit"
            /\ sess' = BeginNested(PostFlush(parents, subs, body, post_defaults))
            /\ cur' = [op |-> "post", pk |-> NextPk(parents),
                       created |-> PostCreated(body)]
            /\ UNCHANGED <<schema, parents, subs, resp>>

(* Lines 418-436: the inner commit flushes the sub-resources and releases  *)
(* the SAVEPOINT; then the reference ids are assigned.                     *)
PostInnerCommit ==
    LET created == FlushCreated(sess.subs, cur.created)
        s1 == [sess EXCEPT !.subs = FlushSubs(sess.subs, cur.created, cur.pk)]
        s2 == ReleaseSavepoint(s1)
    IN  /\ pc = "inner_commit"
        /\ IF ~IntegrityOK(s1.parents, s1.subs)
           THEN Finish(Outcome(Caught("post", WriteErrorStatus("IntegrityError"),
                                      "IntegrityError", "inner_commit", 0),
                               Rollback(s1, parents, subs), Rows(parents, subs), TRUE))
           ELSE IF BackfillRaises(created)
           THEN Finish(Outcome(Caught("post", WriteErrorStatus("AttributeError"),
                                      "AttributeError", "backfill", 0),
                               Rollback(s2, parents, subs), Rows(parents, subs), TRUE))
           ELSE /\ pc' = "outer_commit"
                /\ sess' = [s2 EXCEPT !.subs =
                               Backfill(s2.subs, created, cur.pk, s2.parents[cur.pk])]
                /\ cur' = [cur EXCEPT !.created = created]
                /\ UNCHANGED <<schema, parents, subs, resp>>

(* Lines 439-468: the outer commit, then the response. *)
PostOuterCommit ==
    /\ pc = "outer_commit"
    /\ IF ~IntegrityOK(sess.parents, sess.subs)
       THEN Finish(Outcome(Caught("post", WriteErrorStatus("IntegrityError"),
                                  "IntegrityError", "outer_commit", 0),
                           Rollback(sess, parents, subs), Rows(parents, subs), TRUE))
       ELSE Finish(Outcome(Response("post", "Created", "", "done", cur.pk,
                                    PyDict(WithSubresources(
                                        Serialize(cur.pk, sess.parents[cur.pk]),
                                        cur.created, sess.subs))),
                           sess, Commit(sess), FALSE))

(* ------------------------------------------------------- SingleResource *)
(* The path argument of a single resource: bound to the primary key, or    *)
(* (through attr_map) to the column "deleted", which is not unique.        *)
IdKwargs == {[key |-> "id", value |-> i] : i \in 1..MaxParents}
KwargsChoices == IdKwargs \cup {[key |-> "deleted", value |-> 0]}

Without(table, pk) == [q \in DOMAIN table \ {pk} |-> table[q]]

(* SingleResource.on_get, lines 641-675 *)
OnGet(ps, ss, kwargs) ==
    LET s0 == Begin(ps, ss)
        db == Rows(ps, ss)
        located == ApplyArgFilter(ps, kwargs)
        pk == CHOOSE q \in located : TRUE
    IN  IF One(located) # "one"
           THEN Outcome(Response("get", LocateStatus(One(located)), "", "locate", 0,
                                NoData), s0, db, TRUE)
           ELSE Outcome(Response("get", "OK", "", "done", pk,
                                PyDict(Serialize(pk, ps[pk]))), s0, db, FALSE)

SingleGet(kwargs) == pc = "idle" /\ Finish(OnGet(parents, subs, kwargs))

(* A faulty variant of PreconditionStatus: the second lookup answers like  *)
(* the first.                                                              *)
PreconditionStatus_NotFound == "NotFound"

(* The status when the second one() finds no row, lines 709 and 835 *)
PreconditionStatus == "Conflict"

(* A faulty variant of DeleteRows: the hook is not called. *)
DeleteRows_HookIgnored(ps, pk, mark_deleted) ==
    IF mark_deleted THEN ps ELSE Without(ps, pk)

(* Lines 714-721: the mark_deleted hook and add, or the removal of the     *)
(* rows of the query.                                                      *)
DeleteRows(ps, pk, mark_deleted) ==
    IF mark_deleted THEN [ps EXCEPT ![pk] = MarkDeleted(@)] ELSE Without(ps, pk)

(* SingleResource.on_delete, lines 682-741 *)
OnDelete(ps, ss, kwargs, params, precond, mark_deleted) ==
    LET s0 == Begin(ps, ss)
        db == Rows(ps, ss)
        located == ApplyArgFilter(ps, kwargs)
        f == FilterByParams(ps, located, params)
        matched == Precondition(precond, ps, f.rows)
        pk == CHOOSE q \in located : TRUE
        s1 == [s0 EXCEPT !.parents = DeleteRows(ps, pk, mark_deleted)]
    IN  IF One(located) # "one"
           THEN Outcome(Response("delete", LocateStatus(One(located)), "", "locate", 0,
                                NoData), s0, db, TRUE)
           ELSE IF f.exc # ""
           THEN Outcome(Raised("delete", f.exc, "filter", pk), s0, db, TRUE)
           ELSE IF One(matched) # "one"
           THEN Outcome(Response("delete", PreconditionStatus, "", "precondition", pk,
                                NoData), s0, db, TRUE)
           ELSE IF ~IntegrityOK(s1.parents, s1.subs)
           THEN Outcome(Caught("delete", DeleteErrorStatus("IntegrityError"),
                              "IntegrityError", "commit", pk),
                       Rollback(s1, ps, ss), db, TRUE)
           ELSE Outcome(Response("delete", "OK", "", "done", pk,
                                PyDict(Serialize(pk, IF mark_deleted THEN s1.parents[pk]
                                                     ELSE ps[pk]))),
                       s1, Commit(s1), FALSE)

SingleDelete(kwargs, params, precond, mark_deleted) ==
    pc = "idle" /\ Finish(OnDelete(parents, subs, kwargs, params, precond, mark_deleted))

(* The bodies of a put: the writable columns of the entity, "deleted"      *)
(* maybe left to the defaults.                                             *)
PutBodies ==
    {<<Item("name", n), Item("deleted", v)>> : n \in Names, v \in 0..1}
      \cup {<<Item("name", n)>> : n \in Names}

(* SingleResource.on_put, lines 746-798 *)
OnPut(ps, ss, kwargs, body, put_defaults) ==
    LET s0 == Begin(ps, ss)
        db == Rows(ps, ss)
        located == ApplyArgFilter(ps, kwargs)
        pk == CHOOSE q \in located : TRUE
        attributes == SingleDeserialize(body, FALSE)
        defaulted == ApplyDefaultAttributes(put_defaults, attributes)
        items == Items(defaulted.val)
        s1 == [s0 EXCEPT !.parents[pk] = UpdateResource(@, items.val)]
    IN  IF One(located) # "one"
           THEN Outcome(Response("put", LocateStatus(One(located)), "", "locate", 0,
                                NoData), s0, db, TRUE)
           ELSE IF defaulted.exc # ""
           THEN Outcome(Raised("put", defaulted.exc, "defaults", pk), s0, db, TRUE)
           ELSE IF items.exc # ""
           THEN Outcome(Raised("put", items.exc, "update", pk), s0, db, TRUE)
           ELSE IF ~IntegrityOK(s1.parents, s1.subs)
           THEN Outcome(Caught("put", WriteErrorStatus("IntegrityError"),
                              "IntegrityError", "commit", pk),
                       Rollback(s1, ps, ss), db, TRUE)
           ELSE Outcome(Response("put", "OK", "", "done", pk,
                                PyDict(Serialize(pk, s1.parents[pk]))),
                       s1, Commit(s1), FALSE)

SinglePut(kwargs, body, put_defaults) ==
    pc = "idle" /\ Finish(OnPut(parents, subs, kwargs, body, put_defaults))

(* get_pk, lines 40-45, and the attributes left after the pop *)
HasPk(attributes) == "pk" \in DOMAIN attributes
WithoutPk(attributes) == [k \in DOMAIN attributes \ {"pk"} |-> attributes[k]]

(* getattr(resource, key): the rows of the relationship key of a parent *)
Related(ss, key, parentPk) ==
    {q \in DOMAIN ss : ss[q].rel = key /\ ss[q].fk = parentPk}

(* A faulty variant of PatchMany: the payloads are not validated. *)
PatchMany_Unchecked(value, pks, ss, subresource) ==
    [exc |-> "", subs |-> ss, updated |-> <<>>]

RECURSIVE PatchMany(_, _, _, _)
(* The loop at lines 862-867 over the payloads of a list-valued            *)
(* relationship.  subresource is the function's local variable of that     *)
(* name: 0 while nothing has been assigned to it, else the row it names.   *)
(* Gives [exc, subs, updated], updated the rows appended at line 867.      *)
PatchMany(value, pks, ss, subresource) ==
    IF value = <<>> THEN [exc |-> "", subs |-> ss, updated |-> <<>>]
    ELSE LET attributes == Head(value)
         IN  IF ~HasPk(attributes) THEN [exc |-> "BadRequest", subs |-> ss, updated |-> <<>>]
             ELSE IF attributes["pk"] \notin pks
             THEN [exc |-> "BadRequest", subs |-> ss, updated |-> <<>>]
             ELSE IF subresource = 0
             THEN [exc |-> "UnboundLocalError", subs |-> ss, updated |-> <<>>]
             ELSE LET r == PatchMany(
                               Tail(value), pks,
                               [ss EXCEPT ![subresource] =
                                   UpdateResource(@, WithoutPk(attributes))],
                               subresource)
                  IN  [r EXCEPT !.updated = <<subresource>> \o @]

RECURSIVE PatchLinked(_, _, _, _)
(* The loop at lines 854-876 over linked.items().  Gives [exc, subs,       *)
(* updated], updated being updated_subresources in the order of its keys.  *)
PatchLinked(linked, parentPk, ss, subresource) ==
    IF linked = <<>> THEN [exc |-> "", subs |-> ss, updated |-> <<>>]
    ELSE LET e == Head(linked)
             related == Related(ss, e.key, parentPk)
         IN  IF UseList(e.key)
             THEN LET m == PatchMany(e.value, related, ss, subresource)
                      r == PatchLinked(Tail(linked), parentPk, m.subs, subresource)
                  IN  IF m.exc # "" THEN m
                      ELSE [r EXCEPT !.updated =
                               <<[key |-> e.key, list |-> TRUE, pks |-> m.updated]>> \o @]
             ELSE IF related = {}
             THEN [exc |-> "BadRequest", subs |-> ss, updated |-> <<>>]
             ELSE LET sub == CHOOSE q \in related : TRUE
                      r == PatchLinked(
                               Tail(linked), parentPk,
                               [ss EXCEPT ![sub] = UpdateResource(@, WithoutPk(e.value))],
                               sub)
                  IN  IF ~HasPk(e.value) \/ e.value["pk"] # sub
                      THEN [exc |-> "BadRequest", subs |-> ss, updated |-> <<>>]
                      ELSE [r EXCEPT !.updated =
                               <<[key |-> e.key, list |-> FALSE, pks |-> <<sub>>]>> \o @]

RECURSIVE WithUpdated(_, _, _)
(* Lines 900-908: data[key] is the list of the serialized rows of a        *)
(* list-valued key, the serialized row of a single-valued one.             *)
WithUpdated(data, updated, ss) ==
    IF updated = <<>> THEN data
    ELSE LET u == Head(updated)
             one == PyDict(SerializeSub(u.pks[1], ss[u.pks[1]]))
             many == PyList([i \in 1..Len(u.pks) |->
                                PyDict(SerializeSub(u.pks[i], ss[u.pks[i]]))])
         IN  WithUpdated((u.key :> (IF u.list THEN many ELSE one)) @@ data,
                         Tail(updated), ss)

(* SingleResource.on_patch, lines 808-912 *)
OnPatch(ps, ss, kwargs, r) ==
    LET s0 == Begin(ps, ss)
        db == Rows(ps, ss)
        located == ApplyArgFilter(ps, kwargs)
        f == FilterByParams(ps, located, r.params)
        matched == Precondition(r.precond, ps, f.rows)
        pk == CHOOSE q \in located : TRUE
        d == SingleDeserialize(r.body, TRUE)
        attributes == ApplyDefaultAttributes(r.defaults, PyDict(d.val[1])).val.val
        s1 == [s0 EXCEPT !.parents[pk] = UpdateResource(@, attributes)]
        l == PatchLinked(d.val[2], pk, s1.subs, 0)
        s2 == [s1 EXCEPT !.subs = l.subs]
    IN  IF One(located) # "one"
           THEN Outcome(Response("patch", LocateStatus(One(located)), "", "locate", 0,
                                NoData), s0, db, TRUE)
           ELSE IF f.exc # ""
           THEN Outcome(Raised("patch", f.exc, "filter", pk), s0, db, TRUE)
           ELSE IF One(matched) # "one"
           THEN Outcome(Response("patch", PreconditionStatus, "", "precondition", pk,
                                NoData), s0, db, TRUE)
           ELSE IF l.exc # ""
           THEN Outcome(Raised("patch", l.exc, "linked", pk), s1, db, TRUE)
           ELSE IF ~IntegrityOK(s2.parents, s2.subs)
           THEN Outcome(Caught("patch", WriteErrorStatus("IntegrityError"),
                              "IntegrityError", "commit", pk),
                       Rollback(s2, ps, ss), db, TRUE)
           ELSE Outcome(Response("patch", "OK", "", "done", pk,
                                PyDict(WithUpdated(Serialize(pk, s2.parents[pk]),
                                                   l.updated, s2.subs))),
                       s2, Commit(s2), FALSE)

SinglePatch(kwargs, r) == pc = "idle" /\ Finish(OnPatch(parents, subs, kwargs, r))

(* ---------------------------------------------------------- the requests *)
(* Query parameters: valid filters, a reserved key, and invalid keys (an   *)
(* unknown name, a relationship, a class attribute that is no column, two  *)
(* suffixes, an unknown operator).                                         *)
Param(parts, value) == [parts |-> parts, value |-> value]

ValidParams ==
    {Param(<<"deleted">>, "0"), Param(<<"deleted", "gte">>, "1"),
     Param(<<"name">>, "a"), Param(<<"deleted", "null">>, "0"),
     Param(<<"", "sort">>, "name")}
InvalidParams ==
    {Param(<<"bogus">>, "1"), Param(<<"children">>, "1"),
     Param(<<"metadata">>, "1"), Param(<<"fullname">>, "1"),
     Param(<<"deleted", "lt", "x">>, "1"), Param(<<"metadata", "lt", "x">>, "1"),
     Param(<<"deleted", "like">>, "1"), Param(<<"deleted", "">>, "1"),
     Param(<<"">>, "1")}
FilterParams == ValidParams \cup InvalidParams
ParamsChoices == {<<>>} \cup {<<p>> : p \in FilterParams}
FewParams ==
    {<<>>, <<Param(<<"deleted">>, "0")>>, <<Param(<<"deleted", "gte">>, "1")>>,
     <<Param(<<"bogus">>, "1")>>}
Preconditions == {"none", "not_deleted"}

PatchRequest(params, precond, defaults, body) ==
    [params |-> params, precond |-> precond, defaults |-> defaults, body |-> body]

(* Patches of the entity's own attributes *)
PlainPatches ==
    {PatchRequest(p, c, EmptyDict, b) :
        p \in FewParams, c \in Preconditions,
        b \in {<<>>, <<Item("deleted", 1)>>} \cup {<<Item("name", n)>> : n \in Names}}
      \cup {PatchRequest(<<>>, "none", "deleted" :> 1, b) :
              b \in {<<>>, <<Item("name", "b")>>, <<Item("deleted", 0)>>}}

(* Patches that nest payloads under "children" and "profile", in either    *)
(* order; a payload may lack its "pk".                                     *)
PatchPayloads ==
    {<<Item("x", x)>> : x \in Xs}
      \cup {<<Item("pk", k), Item("x", x)>> : k \in 1..MaxSubs, x \in Xs}
PatchChildren == {<<Item("children", l)>> : l \in SeqsUpTo(PatchPayloads, MaxK)}
PatchProfile ==
    {<<Item("profile", <<Item("x", 2)>>)>>}
      \cup {<<Item("profile", <<Item("pk", k), Item("x", 2)>>)>> : k \in 1..MaxSubs}
LinkedPatches ==
    {PatchRequest(<<>>, "none", EmptyDict, a \o l) :
        a \in {<<>>, <<Item("deleted", 1)>>},
        l \in PatchChildren \cup PatchProfile
                \cup {c \o q : c \in PatchChildren, q \in PatchProfile}
                \cup {q \o c : c \in PatchChildren, q \in PatchProfile}}

(* ------------------------------------------------------ the specifications *)
NoResponse == Response("none", "none", "", "none", 0, NoData)

(* Rows a store can hold when a request arrives. *)
ParentRow(name, deleted) == [name |-> name, deleted |-> deleted, parents_id |-> 0]
SubRow(rel, fk, x) == [rel |-> rel, fk |-> fk, x |-> x]
Fixtures ==
    {Rows(1 :> ParentRow("a", 0), EmptyTable),
     Rows((1 :> ParentRow("a", 0)) @@ (2 :> ParentRow("b", 0)),
          (1 :> SubRow("children", 1, 1)) @@ (2 :> SubRow("children", 1, 2))),
     Rows((1 :> ParentRow("a", 0)) @@ (2 :> ParentRow("b", 0)),
          (1 :> SubRow("profile", 1, 1)) @@ (2 :> SubRow("children", 1, 1)))}

Idle ==
    /\ pc = "idle"
    /\ sess = NoSess
    /\ cur = NoReq
    /\ resp = NoResponse

(* The store starts empty. *)
Init ==
    /\ schema \in Schemas
    /\ parents = EmptyTable
    /\ subs = EmptyTable
    /\ Idle

(* The store starts with rows in it. *)
InitFixture ==
    /\ schema \in Schemas
    /\ \E f \in Fixtures : parents = f.parents /\ subs = f.subs
    /\ Idle

Post ==
    \/ \E body \in PostBodies : PostBegin(body, EmptyDict)
    \/ \E body \in PlainBodies, post_defaults \in DefaultsChoices :
          PostBegin(body, post_defaults)
    \/ PostInnerCommit
    \/ PostOuterCommit

Get == \E kwargs \in KwargsChoices : SingleGet(kwargs)

Delete ==
    \E kwargs \in KwargsChoices, params \in FewParams,
       precond \in Preconditions, mark_deleted \in BOOLEAN :
       SingleDelete(kwargs, params, precond, mark_deleted)

Put ==
    \E kwargs \in KwargsChoices, body \in PutBodies,
       put_defaults \in DefaultsChoices : SinglePut(kwargs, body, put_defaults)

Patch == \E kwargs \in KwargsChoices, r \in PlainPatches : SinglePatch(kwargs, r)

PatchLinkedRequest ==
    \E kwargs \in IdKwargs, r \in LinkedPatches : SinglePatch(kwargs, r)

Filtered ==
    \/ \E kwargs \in KwargsChoices, params \in ParamsChoices :
          SingleDelete(kwargs, params, "none", TRUE)
    \/ \E kwargs \in KwargsChoices, params \in ParamsChoices :
          SinglePatch(kwargs, PatchRequest(params, "none", EmptyDict,
                                           <<Item("deleted", 0)>>))

(* Creates, and reads of what they created. *)
NextCreate == Post \/ Get
SpecCreate == Init /\ [][NextCreate]_vars

(* The single-resource handlers on a store that holds rows. *)
NextSingle == Get \/ Delete \/ Put \/ Patch
SpecSingle == InitFixture /\ [][NextSingle]_vars

(* Patches of linked sub-resources. *)
NextLinked == PatchLinkedRequest \/ Get
SpecLinked == InitFixture /\ [][NextLinked]_vars

(* Requests with query-parameter filters. *)
NextFilter == Filtered
SpecFilter == InitFixture /\ [][NextFilter]_vars

(* ------------------------------------------------------------- the claims *)
(* The step ends a create with a uniqueness violation: the create ended   *)
(* in its first step, which only the flush of begin_nested can cause, or   *)
(* the inner or the outer commit found the session's rows in violation.    *)
PostRaisesIntegrityError ==
    \/ pc = "idle" /\ pc' = "idle" /\ resp'.op = "post"
    \/ /\ PostInnerCommit
       /\ ~IntegrityOK(sess.parents, FlushSubs(sess.subs, cur.created, cur.pk))
    \/ /\ PostOuterCommit
       /\ ~IntegrityOK(sess.parents, sess.subs)

(* C1: a create that raises a uniqueness violation, at the flush of        *)
(* begin_nested, at the inner commit or at the outer commit, is answered   *)
(* Conflict, and the committed rows are those before the request: no step  *)
(* of a create in flight changes them, and neither does the failing step.  *)
C1_ConflictLeavesStore ==
    [][ /\ pc' # "idle" => (parents' = parents /\ subs' = subs)
        /\ PostRaisesIntegrityError
             => /\ pc' = "idle"
                /\ resp'.op = "post"
                /\ resp'.status = "Conflict"
                /\ parents' = parents
                /\ subs' = subs ]_vars

(* A create refused at the outer commit: the reference ids assigned after  *)
(* the inner commit gave two profiles the same parent.                     *)
C1_Witness ==
    /\ resp.op = "post"
    /\ resp.status = "Conflict"
    /\ resp.stage = "outer_commit"
    /\ parents # EmptyTable

(* C2: of two successive creates that carry the same name, the first (a    *)
(* fresh name, nothing nested) is not refused; the second is answered      *)
(* Conflict; and after the second the first entity is still committed and  *)
(* a single get of its primary key returns it.                             *)
C2_SecondCreateConflicts ==
    /\ pc = "idle" =>
          \A n \in Names, post_defaults \in DefaultsChoices :
              (\A pk \in DOMAIN parents : parents[pk].name # n)
                 => ~PostFlushRaises(parents, subs, <<Item("name", n)>>, post_defaults)
    /\ (pc \in {"inner_commit", "outer_commit"} /\ cur.created = <<>>)
          => /\ IntegrityOK(sess.parents, FlushSubs(sess.subs, cur.created, cur.pk))
             /\ ~BackfillRaises(cur.created)
    /\ (pc = "idle" /\ resp.op = "post" /\ resp.status = "Created") =>
          \A body \in PostBodies, post_defaults \in DefaultsChoices :
              (body[1].value = resp.data.val.name
                   /\ (post_defaults = EmptyDict \/ body \in PlainBodies)) =>
                 LET second == PostFlushOutcome(parents, subs)
                     after == second.rows
                     got == OnGet(after.parents, after.subs,
                                  [key |-> "id", value |-> resp.pk]).resp
                 IN  /\ PostFlushRaises(parents, subs, body, post_defaults)
                     /\ second.resp.status = "Conflict"
                     /\ resp.pk \in DOMAIN after.parents
                     /\ got.status = "OK"
                     /\ got.data.val.name = body[1].value

(* The second create has been refused at the flush and the first entity    *)
(* is in the store.                                                        *)
C2_Witness ==
    /\ resp.op = "post"
    /\ resp.status = "Conflict"
    /\ resp.stage = "begin_nested"
    /\ \E pk \in DOMAIN parents : parents[pk].name \in Names

(* The committed rows do not change in the step *)
StoreUnchanged == parents' = parents /\ subs' = subs

(* The payloads the create in flight nests under a one-to-many key *)
OneToManyCreated == {i \in 1..Len(cur.created) : cur.created[i].type = "onetomany"}

(* C3: a successful create with k payloads nested under a one-to-many      *)
(* relationship commits exactly one new parent and k new children, the     *)
(* foreign key of every new child being the primary key of the new parent, *)
(* and nothing of it is committed while the create is in flight.           *)
C3_ChildrenReferenceParent ==
    [][ /\ pc' # "idle" => StoreUnchanged
        /\ (PostOuterCommit /\ resp'.status = "Created") =>
              LET newChildren == {q \in DOMAIN subs' \ DOMAIN subs :
                                     subs'[q].rel = "children"}
              IN  /\ DOMAIN parents' \ DOMAIN parents = {resp'.pk}
                  /\ \A pk \in DOMAIN parents : parents'[pk] = parents[pk]
                  /\ \A q \in DOMAIN subs : subs'[q] = subs[q]
                  /\ Cardinality(newChildren) = Cardinality(OneToManyCreated)
                  /\ \A q \in newChildren : subs'[q].fk = resp'.pk ]_vars

(* v, the value of a key of the response data, holds the serialized row e *)
Holds(v, e) ==
    \/ v = PyDict(e)
    \/ v.type = "list" /\ \E j \in DOMAIN v.val : v.val[j] = PyDict(e)

(* C4: the response of a successful create holds the serialized entity     *)
(* and, under its relationship key, every sub-resource the create made.    *)
C4_ResponseHoldsEverySubresource ==
    [][ (PostOuterCommit /\ resp'.status = "Created") =>
           /\ \A f \in {"id", "name", "deleted", "parents_id"} :
                 resp'.data.val[f] = Serialize(cur.pk, parents'[cur.pk])[f]
           /\ \A i \in 1..Len(cur.created) :
                 /\ cur.created[i].key \in DOMAIN resp'.data.val
                 /\ Holds(resp'.data.val[cur.created[i].key],
                          SerializeSub(cur.created[i].pk, subs'[cur.created[i].pk])) ]_vars

(* The primary key a path argument locates, when it locates one row *)
Located(kwargs) == CHOOSE pk \in ApplyArgFilter(parents, kwargs) : TRUE

(* The get of the row pk after the outcome o of a request *)
GetAfter(o, pk) == OnGet(o.rows.parents, o.rows.subs, [key |-> "id", value |-> pk]).resp

(* C5: a put on an entity its path arguments locate uniquely, with a body  *)
(* that keeps the constraints of the store, is answered OK; the entity     *)
(* takes the values of the body, with the put defaults for what the body   *)
(* leaves out; the change is committed and a get returns those values.     *)
C5_PutReplaces ==
    pc = "idle" =>
       \A kwargs \in KwargsChoices, body \in PutBodies, put_defaults \in DefaultsChoices :
          LET pk == Located(kwargs)
              expected == UpdateResource(
                              parents[pk],
                              ColumnItems("parents", body, TRUE) @@ put_defaults)
              o == OnPut(parents, subs, kwargs, body, put_defaults)
          IN  (/\ Cardinality(ApplyArgFilter(parents, kwargs)) = 1
               /\ IntegrityOK([parents EXCEPT ![pk] = expected], subs))
                 => /\ o.resp.status = "OK"
                    /\ o.rows.parents = [parents EXCEPT ![pk] = expected]
                    /\ GetAfter(o, pk).status = "OK"
                    /\ GetAfter(o, pk).data.val.name = expected.name
                    /\ GetAfter(o, pk).data.val.deleted = expected.deleted

RECURSIVE ExpectedSubs(_, _)
(* The sub-resources once every payload of value has given its x to the    *)
(* row its pk names.                                                       *)
ExpectedSubs(ss, value) ==
    IF value = <<>> THEN ss
    ELSE ExpectedSubs([ss EXCEPT ![Head(value)[1].value].x = Head(value)[2].value],
                      Tail(value))

(* C6: a patch that nests, under the list-valued relationship, payloads    *)
(* whose pk each names a child of the located entity is answered OK, and   *)
(* every payload has given its attributes to the child its pk names and to *)
(* no other sub-resource.                                                  *)
C6_PatchUpdatesMatchingChildren ==
    pc = "idle" =>
       \A kwargs \in IdKwargs, l \in PatchChildren :
          LET pk == kwargs.value
              value == l[1].value
              expected == ExpectedSubs(subs, value)
              o == OnPatch(parents, subs, kwargs, PatchRequest(<<>>, "none", EmptyDict, l))
          IN  (/\ pk \in DOMAIN parents
               /\ value # <<>>
               /\ \A i \in 1..Len(value) :
                     /\ Len(value[i]) = 2
                     /\ value[i][1].value \in Related(subs, "children", pk)
               /\ IntegrityOK(parents, expected))
                 => /\ o.resp.status = "OK"
                    /\ o.rows.subs = expected
                    /\ o.rows.parents = parents

(* The path arguments locate one row, the filters are valid, and no row    *)
(* passes both the filters and the precondition.                           *)
ExcludedByPrecondition(kwargs, params, precond) ==
    LET located == ApplyArgFilter(parents, kwargs)
        f == FilterByParams(parents, located, params)
    IN  /\ Cardinality(located) = 1
        /\ f.exc = ""
        /\ Precondition(precond, parents, f.rows) = {}

(* The outcome o is a Conflict that left the committed rows as they were *)
ConflictUnchanged(o) ==
    /\ o.resp.status = "Conflict"
    /\ o.rows = Rows(parents, subs)

(* C7: a delete or a patch whose entity exists, but whose filters and      *)
(* precondition together match no row, is answered Conflict, not NotFound, *)
(* and the row is afterwards present and as it was: neither the hook, the  *)
(* removal nor the update has been applied.                                *)
C7_PreconditionConflict ==
    pc = "idle" =>
       /\ \A kwargs \in KwargsChoices, params \in FewParams,
             precond \in Preconditions, mark_deleted \in BOOLEAN :
             ExcludedByPrecondition(kwargs, params, precond)
                => ConflictUnchanged(OnDelete(parents, subs, kwargs, params,
                                              precond, mark_deleted))
       /\ \A kwargs \in KwargsChoices, r \in PlainPatches :
             ExcludedByPrecondition(kwargs, r.params, r.precond)
                => ConflictUnchanged(OnPatch(parents, subs, kwargs, r))

(* A patch has been refused because the precondition excluded the row,     *)
(* which is in the store, marked deleted as it was.                        *)
C7_Witness ==
    /\ resp.op = "patch"
    /\ resp.status = "Conflict"
    /\ resp.stage = "precondition"
    /\ resp.pk \in DOMAIN parents
    /\ parents[resp.pk].deleted = 1

(* The outcome o has the status given and left the committed rows as they  *)
(* were.                                                                   *)
RefusedWith(o, status) ==
    /\ o.resp.status = status
    /\ o.rows = Rows(parents, subs)

(* Every handler of the single resource answers the path argument kwargs   *)
(* with the status given, and changes nothing.                             *)
AllRefuseWith(kwargs, status) ==
    /\ RefusedWith(OnGet(parents, subs, kwargs), status)
    /\ \A body \in PutBodies, put_defaults \in DefaultsChoices :
          RefusedWith(OnPut(parents, subs, kwargs, body, put_defaults), status)
    /\ \A r \in PlainPatches : RefusedWith(OnPatch(parents, subs, kwargs, r), status)
    /\ \A params \in FewParams, precond \in Preconditions, mark_deleted \in BOOLEAN :
          RefusedWith(OnDelete(parents, subs, kwargs, params, precond, mark_deleted),
                      status)

(* C8: in get, put, patch and delete, path arguments that match no row are *)
(* answered NotFound and path arguments that match several rows are        *)
(* answered with a server fault; in both cases nothing is committed.       *)
C8_LookupFailures ==
    pc = "idle" =>
       \A kwargs \in KwargsChoices :
          LET n == Cardinality({pk \in DOMAIN parents :
                                   ColumnValue(pk, parents[pk], kwargs.key) = kwargs.value})
          IN  /\ n = 0 => AllRefuseWith(kwargs, "NotFound")
              /\ n > 1 => AllRefuseWith(kwargs, "InternalServerError")

(* A put whose path argument matched two rows has been answered with a     *)
(* server fault.                                                           *)
C8_Witness ==
    /\ resp.op = "put"
    /\ resp.status = "InternalServerError"
    /\ resp.stage = "locate"
    /\ Cardinality({pk \in DOMAIN parents : parents[pk].deleted = 0}) > 1

(* C9: a successful delete of a resource with a mark_deleted hook commits  *)
(* the hook's change to the located row, which stays in the store; without *)
(* the hook it removes the located row and no other.                       *)
C9_DeleteHookOrRemoval ==
    pc = "idle" =>
       \A kwargs \in KwargsChoices, params \in FewParams,
          precond \in Preconditions, mark_deleted \in BOOLEAN :
          LET o == OnDelete(parents, subs, kwargs, params, precond, mark_deleted)
              pk == o.resp.pk
          IN  o.resp.status = "OK" =>
                 /\ ApplyArgFilter(parents, kwargs) = {pk}
                 /\ o.rows.subs = subs
                 /\ IF mark_deleted
                    THEN /\ DOMAIN o.rows.parents = DOMAIN parents
                         /\ o.rows.parents[pk] = [parents[pk] EXCEPT !.deleted = 1]
                         /\ \A q \in DOMAIN parents \ {pk} : o.rows.parents[q] = parents[q]
                    ELSE /\ DOMAIN o.rows.parents = DOMAIN parents \ {pk}
                         /\ \A q \in DOMAIN parents \ {pk} : o.rows.parents[q] = parents[q]

(* A delete with the hook has succeeded: the row is in the store, marked. *)
C9_Witness ==
    /\ resp.op = "delete"
    /\ resp.status = "OK"
    /\ resp.pk \in DOMAIN parents
    /\ parents[resp.pk].deleted = 1
    /\ resp.data.val.deleted = 1

(* A filter key that is not reserved and whose base names no column (no    *)
(* attribute, a relationship, another attribute of the class), or that has *)
(* more than one suffix, or whose operator is unknown.                     *)
InvalidFilterKey(parts) ==
    /\ ~(Len(parts) >= 2 /\ parts[1] = "")
    /\ \/ AttrKind("parents", parts[1]) # "column"
       \/ Len(parts) > 2
       \/ Len(parts) = 2 /\ parts[2] \notin Ops

(* C10: a filter key whose base resolves to no scalar column, or with more *)
(* than one suffix, or with an unknown operator, is answered BadRequest    *)
(* and with no other error, in the delete and in the patch of a located    *)
(* row.                                                                    *)
C10_InvalidFilterIsBadRequest ==
    pc = "idle" =>
       \A kwargs \in KwargsChoices, p \in FilterParams :
          (Cardinality(ApplyArgFilter(parents, kwargs)) = 1 /\ InvalidFilterKey(p.parts))
             => /\ OnDelete(parents, subs, kwargs, <<p>>, "none", TRUE).resp.status
                      = "BadRequest"
                /\ OnPatch(parents, subs, kwargs,
                           PatchRequest(<<p>>, "none", EmptyDict, <<Item("deleted", 0)>>)
                          ).resp.status = "BadRequest"


(* ------------------------------------------------------- collection list *)
(* A value that may be None: <<>> is None, <<v>> is v.  A request          *)
(* parameter that is absent is None.                                       *)
PyNone == <<>>
Some(v) == <<v>>

(* bool(v) of an int that may be None, line 345 *)
Truthy(v) == v # PyNone /\ v[1] # 0

(* A list request: the filter parameters, and the values of '__sort',      *)
(* '__page', '__page_size' and '__included' (None when absent), each as    *)
(* get_param_as_list and get_param_as_int give them; allowed_included is   *)
(* the resource's attribute of that name.                                  *)
ListRequest(params, sort, page, page_size, included, allowed_included) ==
    [params |-> params, sort |-> sort, page |-> page, page_size |-> page_size,
     included |-> included, allowed_included |-> allowed_included]

(* One reserved parameter of req.params, if present *)
Reserved(name, v) == IF v = PyNone THEN <<>> ELSE <<Param(<<"", name>>, v[1])>>

(* req.params: the filter parameters and the reserved ones *)
ReqParams(r) ==
    r.params \o Reserved("sort", r.sort) \o Reserved("page", r.page)
        \o Reserved("page_size", r.page_size) \o Reserved("included", r.included)

(* field_name[0] == '-' and field_name[1:], lines 325-327 *)
Reverse(field_name) == field_name \in {"-id", "-name", "-deleted"}
FieldName(field_name) ==
    CASE field_name = "-id" -> "id"
      [] field_name = "-name" -> "name"
      [] field_name = "-deleted" -> "deleted"
      [] OTHER -> field_name

RECURSIVE OrderFields(_)
(* The loop at lines 323-338 over the names of '__sort': [exc, fields] *)
OrderFields(sort) ==
    IF sort = <<>> THEN [exc |-> "", fields |-> <<>>]
    ELSE LET name == FieldName(Head(sort))
             kind == AttrKind("parents", name)
             rest == OrderFields(Tail(sort))
         IN  IF kind = "absent" THEN [exc |-> "BadRequest", fields |-> <<>>]
             ELSE IF kind = "other" THEN [exc |-> "KeyError", fields |-> <<>>]
             ELSE IF kind # "column" THEN [exc |-> "BadRequest", fields |-> <<>>]
             ELSE IF rest.exc # "" THEN rest
             ELSE [rest EXCEPT !.fields =
                      <<[name |-> name, reverse |-> Reverse(Head(sort))]>> \o @]

(* The place of a string in the order of the store's collation *)
NameRank(str) ==
    CASE str = "" -> 0
      [] str = "A" -> 1
      [] str = "AB" -> 2
      [] str = "B" -> 3
      [] str = "_" -> 4
      [] str = "a" -> 5
      [] str = "a_" -> 6
      [] str = "ab" -> 7
      [] str = "b" -> 8
      [] str = "ba" -> 9

(* The value a row is ordered by under one field of ORDER BY *)
SortKey(ps, pk, name) ==
    IF name = "name" THEN NameRank(ps[pk].name) ELSE ColumnValue(pk, ps[pk], name)

RECURSIVE Before(_, _, _, _)
(* Row p comes before row q under ORDER BY fields (line 339).  Rows that   *)
(* the fields do not tell apart come in the order of their primary keys.   *)
Before(ps, fields, p, q) ==
    IF fields = <<>> THEN p < q
    ELSE LET f == Head(fields)
             a == SortKey(ps, p, f.name)
             b == SortKey(ps, q, f.name)
         IN  IF a = b THEN Before(ps, Tail(fields), p, q)
             ELSE IF f.reverse THEN a > b ELSE a < b

RECURSIVE OrderBy(_, _, _)
(* resources.order_by of the order fields, line 339: the rows in order *)
OrderBy(ps, rows, fields) ==
    IF rows = {} THEN <<>>
    ELSE LET first == CHOOSE p \in rows : \A q \in rows \ {p} : Before(ps, fields, p, q)
         IN  <<first>> \o OrderBy(ps, rows \ {first}, fields)

(* A faulty variant of Offset: the rows of the page itself are skipped. *)
Offset_PageIncluded(page, page_size) == page * page_size

(* (page - 1) * page_size, line 348 *)
Offset(page, page_size) == (page - 1) * page_size

(* resources.offset(n).limit(m), lines 348-349 *)
OffsetLimit(rows, n, m) ==
    IF n >= Len(rows) THEN <<>>
    ELSE SubSeq(rows, n + 1, IF n + m < Len(rows) THEN n + m ELSE Len(rows))

(* __tablename__ of the class of a relationship *)
TableName(key) == IF key = "children" THEN "kids" ELSE "profiles"

RECURSIVE AddIncluded(_, _, _, _, _)
(* add_included, lines 58-84, for the names left of '__included' on the    *)
(* row pk: out is [exc, attributes, serialized], attributes being          *)
(* data['attributes'] and serialized the number of calls of serialize.     *)
(* A list-valued relationship reaches line 76, which reads the local       *)
(* variable included_resource before the loop of line 77 binds it.         *)
AddIncluded(names, allowed_included, pk, ss, out) ==
    IF names = <<>> THEN out
    ELSE LET included == Head(names)
             included_resources == Related(ss, included, pk)
             one == CHOOSE q \in included_resources : TRUE
         IN  IF included \notin allowed_included
             THEN [out EXCEPT !.exc = "BadRequest"]
             ELSE IF UseList(included)
             THEN [out EXCEPT !.exc = "UnboundLocalError"]
             ELSE IF included_resources = {}
             THEN AddIncluded(Tail(names), allowed_included, pk, ss, out)
             ELSE AddIncluded(
                      Tail(names), allowed_included, pk, ss,
                      [out EXCEPT
                          !.attributes = (TableName(included) :>
                                             PyDict(SerializeSub(one, ss[one]))) @@ @,
                          !.serialized = @ + 1])

(* One entry of result['data'], lines 355-360 and 663-670: [exc,           *)
(* attributes, serialized] after serialize and add_included.               *)
Instance(pk, ps, ss, included, allowed_included) ==
    AddIncluded(IF included = PyNone THEN <<>> ELSE included[1], allowed_included,
                pk, ss,
                [exc |-> "", attributes |-> Serialize(pk, ps[pk]), serialized |-> 1])

RECURSIVE ListData(_, _, _, _, _, _)
(* The loop at lines 354-361 over the rows of the query: [exc, data,       *)
(* serialized], acc being what the rows before gave.                       *)
ListData(rows, ps, ss, included, allowed_included, acc) ==
    IF rows = <<>> THEN acc
    ELSE LET pk == Head(rows)
             i == Instance(pk, ps, ss, included, allowed_included)
             n == acc.serialized + i.serialized
         IN  IF i.exc # ""
             THEN [exc |-> i.exc, data |-> acc.data, serialized |-> n]
             ELSE ListData(
                      Tail(rows), ps, ss, included, allowed_included,
                      [exc |-> "",
                       data |-> Append(acc.data,
                                       [pk |-> pk, type |-> "parents",
                                        attributes |-> i.attributes]),
                       serialized |-> n])

(* The response to a list request r.  meta is result['meta'] (None when    *)
(* absent), serialized the number of calls of serialize the handler made,  *)
(* queries the number of statements its query ran (count() and the         *)
(* iteration).                                                             *)
ListResponse(r, status, exc, stage, data, meta, serialized, queries) ==
    [op |-> "list", status |-> status, exc |-> exc, stage |-> stage, pk |-> 0,
     data |-> data, req |-> r, meta |-> meta, serialized |-> serialized,
     queries |-> queries]

(* A list request that raised exc *)
ListRaised(r, exc, stage, serialized, queries) ==
    ListResponse(r, Raised("list", exc, stage, 0).status,
                 Raised("list", exc, stage, 0).exc, stage, NoData, PyNone,
                 serialized, queries)

(* CollectionResource.on_get, lines 298-373, on a route without path       *)
(* arguments and a resource without default_sort.                          *)
OnList(ps, ss, r) ==
    LET s0 == Begin(ps, ss)
        db == Rows(ps, ss)
        f == FilterByParams(ps, DOMAIN ps, ReqParams(r))
        o == OrderFields(IF r.sort = PyNone THEN <<>> ELSE r.sort[1])
        resources == OrderBy(ps, f.rows, o.fields)
        bounded == Truthy(r.page) /\ Truthy(r.page_size)
        count == IF bounded THEN Some(Cardinality(f.rows)) ELSE PyNone
        page == IF bounded
                THEN OffsetLimit(resources, Offset(r.page[1], r.page_size[1]),
                                 r.page_size[1])
                ELSE resources
        d == ListData(page, ps, ss, r.included, r.allowed_included,
                      [exc |-> "", data |-> <<>>, serialized |-> 0])
        queries == IF bounded THEN 2 ELSE 1
        meta == IF r.page # PyNone /\ r.page_size # PyNone
                THEN Some([total |-> count, page |-> r.page[1],
                           page_size |-> r.page_size[1]])
                ELSE PyNone
    IN  IF f.exc # ""
           THEN Outcome(ListRaised(r, f.exc, "filter", 0, 0), s0, db, TRUE)
           ELSE IF o.exc # ""
           THEN Outcome(ListRaised(r, o.exc, "sort", 0, 0), s0, db, TRUE)
           ELSE IF d.exc # ""
           THEN Outcome(ListRaised(r, d.exc, "included", d.serialized, queries),
                        s0, db, TRUE)
           ELSE Outcome(ListResponse(r, "OK", "", "done", PyList(d.data), meta,
                                     d.serialized, queries),
                        s0, db, FALSE)

CollectionGet(r) == pc = "idle" /\ Finish(OnList(parents, subs, r))


(* ------------------------------------------------------ the list requests *)
(* Filter clauses on columns, one for each operator *)
ListClauses ==
    {Param(<<"name">>, "a"), Param(<<"deleted">>, "1"),
     Param(<<"name", "in">>, "a,B"), Param(<<"id", "in">>, "1,3"),
     Param(<<"parents_id", "null">>, "0"), Param(<<"parents_id", "null">>, "1"),
     Param(<<"deleted", "lt">>, "1"), Param(<<"id", "lte">>, "2"),
     Param(<<"id", "gt">>, "1"), Param(<<"deleted", "gte">>, "1")}

(* Pattern clauses: values of letters, and values that hold '_' or '%' *)
PlainPatterns ==
    {Param(<<"name", c>>, v) : c \in {"startswith", "contains"},
                                v \in {"", "a", "A", "b", "ab", "ba"}}
WildcardPatterns ==
    {Param(<<"name", c>>, v) : c \in {"startswith", "contains"},
                                v \in {"_", "%", "a_", "%b"}}

(* Filters on an attribute the model does not have *)
UnknownAttributeParams == {Param(<<"bogus">>, "1"), Param(<<"bogus", "gte">>, "1")}

Filters(clauses) ==
    {<<p>> : p \in clauses}
      \cup {<<p, q>> : p \in clauses,
                       q \in {Param(<<"deleted">>, "0"), Param(<<"id", "gt">>, "1"),
                              Param(<<"name", "contains">>, "b")}}

(* Requests with filters only *)
FilterRequests(params) ==
    {ListRequest(f, PyNone, PyNone, PyNone, PyNone, {}) : f \in params}

Sorts == {PyNone, Some(<<"name">>), Some(<<"-name">>), Some(<<"deleted", "-id">>)}
BadSorts == {Some(<<"bogus">>), Some(<<"name", "children">>), Some(<<"metadata">>)}
Pages == {PyNone} \cup {Some(p) : p \in 0..3}
PageSizes == {PyNone} \cup {Some(n) : n \in 0..2}

(* Requests with '__sort', '__page' and '__page_size' *)
PageRequests ==
    {ListRequest(f, o, p, n, PyNone, {}) :
        f \in {<<>>, <<Param(<<"deleted">>, "0")>>}, o \in Sorts, p \in Pages,
        n \in PageSizes}
      \cup {ListRequest(<<>>, o, PyNone, PyNone, PyNone, {}) : o \in BadSorts}

Included ==
    {Some(<<"profile">>), Some(<<"children">>), Some(<<"bogus">>),
     Some(<<"profile", "bogus">>), Some(<<"bogus", "profile">>),
     Some(<<"profile", "children">>)}
AllowedIncluded == {Rels, {"profile"}, {}}

(* Requests with '__included' *)
IncludedRequests ==
    {ListRequest(f, PyNone, PyNone, PyNone, i, a) :
        f \in {<<>>, <<Param(<<"deleted">>, "1")>>, <<Param(<<"id">>, "3")>>},
        i \in Included, a \in AllowedIncluded}

(* Stores a list request can find: no row; three rows whose names differ   *)
(* in case and length, the first with a profile and two children, the      *)
(* second with one child, the third with neither; two rows without         *)
(* sub-resources.                                                          *)
ListFixtures ==
    {Rows(EmptyTable, EmptyTable),
     Rows((1 :> ParentRow("ab", 0)) @@ (2 :> [ParentRow("B", 1) EXCEPT !.parents_id = 1])
             @@ (3 :> ParentRow("a", 0)),
          (1 :> SubRow("profile", 1, 1)) @@ (2 :> SubRow("children", 1, 1))
             @@ (3 :> SubRow("children", 1, 2)) @@ (4 :> SubRow("children", 2, 3))),
     Rows((1 :> ParentRow("b", 1)) @@ (2 :> ParentRow("a", 0)), EmptyTable)}

InitList ==
    /\ schema \in {"nobackfill", "column"}
    /\ \E f \in ListFixtures : parents = f.parents /\ subs = f.subs
    /\ Idle

ListFiltered ==
    \/ \E r \in FilterRequests(Filters(ListClauses \cup PlainPatterns \cup WildcardPatterns)) :
          CollectionGet(r)
    \/ \E r \in FilterRequests({<<p>> : p \in UnknownAttributeParams \cup InvalidParams}) :
          CollectionGet(r)
    \/ \E p \in ListClauses \cup PlainPatterns :
          CollectionGet(ListRequest(<<p>>, Some(<<"-name">>), PyNone, PyNone, PyNone, {}))

ListPaged == \E r \in PageRequests : CollectionGet(r)

(* Reads of the collection with filters. *)
NextListFilter == ListFiltered
SpecListFilter == InitList /\ [][NextListFilter]_vars

(* Reads of the collection with a sort and pages. *)
NextListPage == ListPaged
SpecListPage == InitList /\ [][NextListPage]_vars


(* ------------------------------------------------------------------------ *)
(* The number of lookups a single delete or patch has run when it ends at  *)
(* stage: the one() of lines 693 and 819 runs before filter_by_params is   *)
(* called, the one() of lines 707 and 833 after.                           *)
LookupsRun(stage) == IF stage \in {"locate", "filter"} THEN 1 ELSE 2

(* C11: in the collection list, the single delete and the single patch, a  *)
(* request with a filter on an attribute the model does not have is        *)
(* answered BadRequest, and no query has run when it is answered.          *)
C11_UnknownFilterRunsNoQuery ==
    pc = "idle" =>
       \A p \in UnknownAttributeParams :
          /\ \E o \in {OnList(parents, subs,
                              ListRequest(<<p>>, PyNone, PyNone, PyNone, PyNone, {})).resp} :
                o.status = "BadRequest" /\ o.queries = 0
          /\ \A kwargs \in KwargsChoices :
                /\ \E o \in {OnDelete(parents, subs, kwargs, <<p>>, "none", TRUE).resp} :
                      o.status = "BadRequest" /\ LookupsRun(o.stage) = 0
                /\ \E o \in {OnPatch(parents, subs, kwargs,
                                     PatchRequest(<<p>>, "none", EmptyDict,
                                                  <<Item("deleted", 0)>>)).resp} :
                      o.status = "BadRequest" /\ LookupsRun(o.stage) = 0


(* ------------------------------------------------------------------------ *)
(* A string in lower case *)
LowerAll(chars) == [i \in 1..Len(chars) |-> Lower(chars[i])]

(* prefix starts text, and part occurs in text, whatever the case *)
IsPrefix(prefix, text) ==
    /\ Len(prefix) <= Len(text)
    /\ LowerAll(prefix) = LowerAll(SubSeq(text, 1, Len(prefix)))
IsSubstring(part, text) ==
    \E i \in 0..Len(text) : IsPrefix(part, SubSeq(text, i + 1, Len(text)))

(* The rows of a list response *)
ListedRows(r) == {r.data.val[i].pk : i \in 1..Len(r.data.val)}

(* Row pk satisfies the clause p under the stated semantics of the         *)
(* operators, a pattern being matched by match(value, name).               *)
Satisfies(pk, row, p, match(_, _)) ==
    LET key == p.parts[1]
        comparison == IF Len(p.parts) = 1 THEN "=" ELSE p.parts[2]
        v == ColumnValue(pk, row, key)
    IN  CASE comparison = "=" -> IF key = "name" THEN v = p.value ELSE v = ToInt(p.value)
          [] comparison = "in" ->
                \E e \in CsvValues(p.value) : IF key = "name" THEN v = e ELSE v = ToInt(e)
          [] comparison = "null" ->
                IF p.value = "0" THEN ~IsNull(pk, row, key) ELSE IsNull(pk, row, key)
          [] comparison = "startswith" -> match(<<p.value, "startswith">>, v)
          [] comparison = "contains" -> match(<<p.value, "contains">>, v)
          [] comparison = "lt" -> v < ToInt(p.value)
          [] comparison = "lte" -> v <= ToInt(p.value)
          [] comparison = "gt" -> v > ToInt(p.value)
          [] comparison = "gte" -> v >= ToInt(p.value)

(* The rows of ps that satisfy every clause of params; a key starting with *)
(* '__' is no clause.                                                      *)
Conjunction(ps, params, match(_, _)) ==
    {pk \in DOMAIN ps :
        \A i \in 1..Len(params) :
           params[i].parts[1] = "" \/ Satisfies(pk, ps[pk], params[i], match)}

(* Every key of params is reserved or a valid clause *)
ValidFilters(params) ==
    \A i \in 1..Len(params) :
       (Len(params[i].parts) >= 2 /\ params[i].parts[1] = "")
          \/ ~InvalidFilterKey(params[i].parts)

(* Prefix and substring match of the value as it is written *)
LiteralMatch(pattern, name) ==
    IF pattern[2] = "startswith" THEN IsPrefix(Chars(pattern[1]), Chars(name))
    ELSE IsSubstring(Chars(pattern[1]), Chars(name))

RECURSIVE Expansions(_, _, _)
(* The strings of at most n characters of alphabet that a value stands     *)
(* for when '_' stands for any one character and '%' for any run of        *)
(* characters.                                                             *)
Expansions(value, alphabet, n) ==
    IF value = <<>> THEN {<<>>}
    ELSE LET rest == Expansions(Tail(value), alphabet, n)
             heads == CASE Head(value) = "_" -> {<<c>> : c \in alphabet}
                        [] Head(value) = "%" -> SeqsUpTo(alphabet, n)
                        [] OTHER -> {<<Lower(Head(value))>>}
         IN  {h \o r : h \in heads, r \in rest}

(* Prefix and substring match of some string the value stands for *)
WildcardMatch(pattern, name) ==
    \E e \in Expansions(Chars(pattern[1]),
                        {Lower(c) : c \in {Chars(name)[i] : i \in 1..Len(Chars(name))}},
                        Len(Chars(name))) :
       IF pattern[2] = "startswith" THEN IsPrefix(e, Chars(name))
       ELSE IsSubstring(e, Chars(name))

Precedes(ps, sort, p, q) ==
    \E i \in 1..(Len(sort) + 1) :
       /\ \A j \in 1..(i - 1) :
             SortKey(ps, p, FieldName(sort[j])) = SortKey(ps, q, FieldName(sort[j]))
       /\ IF i = Len(sort) + 1 THEN p < q
          ELSE IF Reverse(sort[i])
          THEN SortKey(ps, p, FieldName(sort[i])) > SortKey(ps, q, FieldName(sort[i]))
          ELSE SortKey(ps, p, FieldName(sort[i])) < SortKey(ps, q, FieldName(sort[i]))

(* The position of row pk in the sorted rows *)
Position(ps, rows, sort, pk) == 1 + Cardinality({q \in rows : Precedes(ps, sort, q, pk)})

Min(a, b) == IF a < b THEN a ELSE b

C14_MetaIffBoundedQuery ==
    (resp.op = "list" /\ resp.status = "OK")
       => LET present == resp.req.page # PyNone /\ resp.req.page_size # PyNone
              counted == resp.queries = 2
              n == Cardinality(Conjunction(parents, ReqParams(resp.req), WildcardMatch))
          IN  /\ present <=> counted
              /\ resp.meta # PyNone <=> counted
              /\ resp.meta # PyNone => resp.meta[1].total = Some(n)


(* --------------------------------------------- single get with '__included' *)
(* A get request: the path arguments, '__included' and allowed_included *)
GetRequest(kwargs, included, allowed_included) ==
    [kwargs |-> kwargs, included |-> included, allowed_included |-> allowed_included]

(* The response to a get request r; serialized is the number of calls of   *)
(* serialize the handler made.                                             *)
GetResponse(r, base, serialized) ==
    [op |-> "get", status |-> base.status, exc |-> base.exc, stage |-> base.stage,
     pk |-> base.pk, data |-> base.data, req |-> r, serialized |-> serialized]

(* SingleResource.on_get, lines 641-675, with req.params *)
OnGetIncluded(ps, ss, r) ==
    LET s0 == Begin(ps, ss)
        db == Rows(ps, ss)
        located == ApplyArgFilter(ps, r.kwargs)
        pk == CHOOSE q \in located : TRUE
        i == Instance(pk, ps, ss, r.included, r.allowed_included)
    IN  IF One(located) # "one"
           THEN Outcome(GetResponse(r, Response("get", LocateStatus(One(located)), "",
                                                "locate", 0, NoData), 0),
                        s0, db, TRUE)
           ELSE IF i.exc # ""
           THEN Outcome(GetResponse(r, Raised("get", i.exc, "included", pk),
                                    i.serialized),
                        s0, db, TRUE)
           ELSE Outcome(GetResponse(r, Response("get", "OK", "", "done", pk,
                                                PyDict([pk |-> pk, type |-> "parents",
                                                        attributes |-> i.attributes])),
                                    i.serialized),
                        s0, db, FALSE)

SingleGetIncluded(r) == pc = "idle" /\ Finish(OnGetIncluded(parents, subs, r))

ListIncluded == \E r \in IncludedRequests : CollectionGet(r)

GetIncluded ==
    \E kwargs \in {[key |-> "id", value |-> i] : i \in 1..4},
       i \in Included \cup {PyNone}, a \in AllowedIncluded :
       SingleGetIncluded(GetRequest(kwargs, i, a))

(* Reads with '__included'. *)
NextIncluded == ListIncluded \/ GetIncluded
SpecIncluded == InitList /\ [][NextIncluded]_vars

(* ------------------------------------------------------------------------ *)
(* The names of '__included' of a request, and whether one is not allowed *)
IncludedNames(r) == IF r.included = PyNone THEN <<>> ELSE r.included[1]
SomeNotAllowed(r) ==
    \E i \in 1..Len(IncludedNames(r)) : IncludedNames(r)[i] \notin r.allowed_included

(* C15: a collection list or a single get (of a row that exists) whose     *)
(* '__included' lists a name that is not in allowed_included fails with    *)
(* BadRequest, and no entity and no related entity has been serialized     *)
(* when it fails.                                                          *)
C15_NotAllowedFailsBeforeSerialization ==
    (/\ resp.op \in {"list", "get"}
     /\ SomeNotAllowed(resp.req)
     /\ resp.op = "get" => resp.stage # "locate")
       => resp.status = "BadRequest" /\ resp.serialized = 0


(* ------------------------------------------------------------------------ *)
(* What an entity's attributes hold for an allowed included name: the      *)
(* serializations of every related entity as a sequence under the table    *)
(* name for a list-valued relationship, the one serialization for a        *)
(* single-valued one that has an entity.                                   *)
HoldsIncluded(attributes, ss, pk, name) ==
    LET related == Related(ss, name, pk)
        key == TableName(name)
    IN  IF UseList(name)
        THEN /\ key \in DOMAIN attributes
             /\ attributes[key].type = "list"
             /\ Len(attributes[key].val) = Cardinality(related)
             /\ {attributes[key].val[i] : i \in 1..Len(attributes[key].val)}
                   = {PyDict(SerializeSub(q, ss[q])) : q \in related}
        ELSE related # {}
                => /\ key \in DOMAIN attributes
                   /\ \E q \in related : attributes[key] = PyDict(SerializeSub(q, ss[q]))

(* The entities of a response: the one of a get, every one of a list *)
Entities(r) == IF r.op = "get" THEN {r.data.val} ELSE {r.data.val[i] : i \in 1..Len(r.data.val)}

(* C16: a list or a get (of a row that exists) whose '__included' names    *)
(* are all allowed succeeds, and each entity of the response holds, under  *)
(* the table name of each included relationship, the sequence of the       *)
(* serializations of its related entities (list-valued) or the one         *)
(* serialization (single-valued).                                          *)
C16_IncludedAttached ==
    (/\ resp.op \in {"list", "get"}
     /\ resp.req.included # PyNone
     /\ ~SomeNotAllowed(resp.req)
     /\ resp.op = "get" => resp.stage # "locate")
       => /\ resp.status = "OK"
          /\ \A e \in Entities(resp) :
                \A i \in 1..Len(IncludedNames(resp.req)) :
                   HoldsIncluded(e.attributes, subs, e.pk, IncludedNames(resp.req)[i])


(* ------------------------------------------- dates and times on the wire *)
(* Values of DateTime, Date and Time columns: datetime, date and time      *)
(* objects (tz is the tzinfo, "" for none; us the microsecond) and None.   *)
Days == {1, 31}
Hours == {0, 23}
Seconds == {0, 59}
Microseconds == {0, 1, 999999}
TzInfos == {"", "UTC"}
DateTimes ==
    {[type |-> "datetime", day |-> d, hour |-> h, second |-> s, us |-> u, tz |-> z] :
        d \in Days, h \in Hours, s \in Seconds, u \in Microseconds, z \in TzInfos}
Dates ==
    {[type |-> "date", day |-> d, hour |-> 0, second |-> 0, us |-> 0, tz |-> ""] :
        d \in Days}
Times ==
    {[type |-> "time", day |-> 0, hour |-> h, second |-> s, us |-> u, tz |-> z] :
        h \in Hours, s \in Seconds, u \in Microseconds, z \in TzInfos}
NoneValue == [type |-> "none", day |-> 0, hour |-> 0, second |-> 0, us |-> 0, tz |-> ""]

(* A string as the sequence of its numbers and of the characters between   *)
(* them.                                                                   *)
Num(n) == [sep |-> "", num |-> n]
Sep(c) == [sep |-> c, num |-> 0]

(* value.strftime('%Y-%m-%d'), the year and the month left out *)
StrfDate(value) == <<Num(value.day)>>

(* value.strftime('%Y-%m-%dT%H:%M:%S'), the minute left out: neither the   *)
(* microsecond nor the tzinfo is written.                                  *)
StrfDateTime(value) ==
    StrfDate(value) \o <<Sep("T"), Num(value.hour), Sep(":"), Num(0), Sep(":"),
                         Num(value.second)>>

(* time.isoformat(): HH:MM:SS, then .ffffff if the microsecond is not 0,   *)
(* then the UTC offset +HH:MM if there is a tzinfo.                        *)
IsoFormat(value) ==
    <<Num(value.hour), Sep(":"), Num(0), Sep(":"), Num(value.second)>>
        \o (IF value.us # 0 THEN <<Sep("."), Num(value.us)>> ELSE <<>>)
        \o (IF value.tz # "" THEN <<Sep("+"), Num(0), Sep(":"), Num(0)>> ELSE <<>>)

(* _serialize_value, lines 155-166, naive telling whether the name is in   *)
(* naive_datetimes: the wire value, None for None.                         *)
SerializeValue(naive, value) ==
    CASE value.type = "datetime" ->
            Some(StrfDateTime(value) \o (IF naive THEN <<>> ELSE <<Sep("Z")>>))
      [] value.type = "date" -> Some(StrfDate(value))
      [] value.type = "time" -> Some(IsoFormat(value))
      [] OTHER -> PyNone

(* datetime.strptime(string, format) succeeds: format holds "%" for a      *)
(* number and the characters in between.                                   *)
StrpMatches(string, format) ==
    /\ Len(string) = Len(format)
    /\ \A i \in 1..Len(format) :
          IF format[i] = "%" THEN string[i].sep = "" ELSE string[i].sep = format[i]

RECURSIVE Split(_, _)
(* string.split(c) *)
Split(string, c) ==
    IF \A i \in 1..Len(string) : string[i].sep # c THEN <<string>>
    ELSE LET k == CHOOSE i \in 1..Len(string) :
                     string[i].sep = c /\ \A j \in 1..(i - 1) : string[j].sep # c
         IN  <<SubSeq(string, 1, k - 1)>> \o Split(SubSeq(string, k + 1, Len(string)), c)

(* int(string) succeeds *)
IsInt(string) == Len(string) = 1 /\ string[1].sep = ""

DateTimeFormat == <<"%", "T", "%", ":", "%", ":", "%">>

(* The DateTime, Date and Time branches of deserialize, lines 259-273 and  *)
(* 601-615, for a column of type type: [exc, value].                       *)
DeserializeValue(type, naive, wire) ==
    LET format == IF naive THEN DateTimeFormat ELSE DateTimeFormat \o <<"Z">>
        ok(v) == [exc |-> "", value |-> v]
        raises == [exc |-> "ValueError", value |-> NoneValue]
        parts == Split(wire[1], ":")
    IN  IF wire = PyNone THEN ok(NoneValue)
        ELSE CASE type = "datetime" ->
                    IF StrpMatches(wire[1], format)
                    THEN ok([type |-> "datetime", day |-> wire[1][1].num,
                             hour |-> wire[1][3].num, second |-> wire[1][7].num,
                             us |-> 0, tz |-> ""])
                    ELSE raises
               [] type = "date" ->
                    IF StrpMatches(wire[1], <<"%">>)
                    THEN ok([NoneValue EXCEPT !.type = "date", !.day = wire[1][1].num])
                    ELSE raises
               [] type = "time" ->
                    IF Len(parts) = 3 /\ \A i \in 1..3 : IsInt(parts[i])
                    THEN ok([NoneValue EXCEPT !.type = "time", !.hour = parts[1][1].num,
                                              !.second = parts[3][1].num])
                    ELSE raises

(* The attribute of a resource: the type of its column, whether its name   *)
(* is in naive_datetimes, and its value.                                   *)
Attributes ==
    {[op |-> "codec", column |-> v.type, naive |-> n, value |-> v] :
        v \in DateTimes, n \in BOOLEAN}
      \cup {[op |-> "codec", column |-> v.type, naive |-> FALSE, value |-> v] :
              v \in Dates \cup Times}
      \cup {[op |-> "codec", column |-> t, naive |-> FALSE, value |-> NoneValue] :
              t \in {"datetime", "date", "time"}}

InitCodec ==
    /\ schema = "nobackfill"
    /\ parents = EmptyTable
    /\ subs = EmptyTable
    /\ pc = "idle"
    /\ sess = NoSess
    /\ cur \in Attributes
    /\ resp = [op |-> "none", wire |-> PyNone, exc |-> "", value |-> NoneValue]

(* serialize writes the attribute to the wire *)
SerializeAttribute ==
    /\ pc = "idle"
    /\ pc' = "serialized"
    /\ resp' = [resp EXCEPT !.op = "serialize",
                            !.wire = SerializeValue(cur.naive, cur.value)]
    /\ UNCHANGED <<schema, parents, subs, sess, cur>>

(* deserialize reads the wire value back *)
DeserializeAttribute ==
    /\ pc = "serialized"
    /\ pc' = "deserialized"
    /\ \E d \in {DeserializeValue(cur.column, cur.naive, resp.wire)} :
          resp' = [resp EXCEPT !.op = "deserialize", !.exc = d.exc, !.value = d.value]
    /\ UNCHANGED <<schema, parents, subs, sess, cur>>

NextCodec == SerializeAttribute \/ DeserializeAttribute
SpecCodec == InitCodec /\ [][NextCodec]_vars

(* ------------------------------------------------------------------------ *)
(* C18: for every value of a date, time or datetime column, whether or not *)
(* its name is in naive_datetimes, deserializing what serialize wrote      *)
(* gives the value back.                                                   *)
C18_DecodeOfEncodeIsValue ==
    pc = "deserialized" => resp.exc = "" /\ resp.value = cur.value


(* ------------------------------------------------------------------------ *)
(* Patches whose linked sub-payloads are validated: under "children" one   *)
(* payload, or one payload and a second without pk; under "profile" one    *)
(* payload; either alone or both in either order, after a change of the    *)
(* entity's own attributes or without one.                                 *)
ValidatedChildren ==
    {<<Item("children", <<p>>)>> : p \in PatchPayloads}
      \cup {<<Item("children", <<p, <<Item("x", 1)>>>>)>> : p \in PatchPayloads}
ValidatedPatches ==
    {PatchRequest(<<>>, "none", EmptyDict, a \o l) :
        a \in {<<>>, <<Item("deleted", 1)>>},
        l \in ValidatedChildren \cup PatchProfile
                \cup {c \o q : c \in ValidatedChildren, q \in PatchProfile}
                \cup {q \o c : c \in ValidatedChildren, q \in PatchProfile}}

PatchValidated == \E kwargs \in IdKwargs, r \in ValidatedPatches : SinglePatch(kwargs, r)

(* Patches whose linked sub-payloads are validated. *)
NextValidation == PatchValidated \/ Get
SpecValidation == InitFixture /\ [][NextValidation]_vars

(* The pk of a sub-payload, 0 if it has none *)
PayloadPk(payload) ==
    IF \E i \in 1..Len(payload) : payload[i].key = "pk"
    THEN payload[CHOOSE i \in 1..Len(payload) : payload[i].key = "pk"].value
    ELSE 0

(* The linked item fails validation for the row pk: for a list-valued      *)
(* relationship its first sub-payload has no pk or a pk that matches no    *)
(* linked entity; for a single-valued one there is no linked entity, or    *)
(* the sub-payload has no pk or another pk than the linked entity's.       *)
FailsValidation(ss, pk, item) ==
    IF UseList(item.key)
    THEN item.value # <<>> /\ PayloadPk(item.value[1]) \notin Related(ss, item.key, pk)
    ELSE PayloadPk(item.value) \notin Related(ss, item.key, pk)

(* The first linked item of a body *)
FirstLinked(body) == body[CHOOSE i \in 1..Len(body) :
                             body[i].key \in Rels /\ \A j \in 1..(i - 1) : body[j].key \notin Rels]

(* C19: a single patch that fails with a client error while its linked     *)
(* sub-payloads are validated persists nothing: the store is as it was     *)
(* before the request, the entity's own attributes and the sub-resources   *)
(* updated before the failure included; and a request whose first linked   *)
(* item fails validation does fail so.                                     *)
C19_FailedLinkedPatchPersistsNothing ==
    pc = "idle" =>
       \A kwargs \in IdKwargs, r \in ValidatedPatches :
          kwargs.value \in DOMAIN parents =>
             \E o \in {OnPatch(parents, subs, kwargs, r)} :
                LET failed == o.resp.status = "BadRequest" /\ o.resp.stage = "linked"
                IN  /\ failed => o.rows = Rows(parents, subs)
                    /\ FailsValidation(subs, kwargs.value, FirstLinked(r.body)) => failed

(* A patch of row 1 failed while its linked sub-payloads were validated,   *)
(* and the row and its profile are as they were.                           *)
C19_Witness ==
    /\ resp.op = "patch"
    /\ resp.status = "BadRequest"
    /\ resp.stage = "linked"
    /\ resp.pk = 1
    /\ parents[1].deleted = 0
    /\ 1 \in DOMAIN subs
    /\ subs[1] = SubRow("profile", 1, 1)


(* ------------------------------------------ CollectionResource.on_patch *)
(* One operation of req.context['doc']['patches']: the values of its keys  *)
(* 'op', 'path' and 'value', None for a key it does not have.              *)
PatchOp(op, path, value) == [op |-> op, path |-> path, value |-> value]

(* patch_paths, lines 489-491: the resource has none of its own *)
PatchPaths == {"/"}

(* The dictionary of a sequence of items *)
DictOf(items) ==
    [k \in {items[i].key : i \in 1..Len(items)} |->
        items[CHOOSE i \in 1..Len(items) :
                 items[i].key = k /\ \A j \in (i + 1)..Len(items) : items[j].key # k].value]

(* What one operation raises, lines 503-526, on a route without path       *)
(* arguments: "" if its entity is built.                                   *)
PatchOpError(patch) ==
    IF patch.op = PyNone \/ patch.op # Some("add") THEN "BadRequest"
    ELSE IF patch.path = PyNone \/ patch.path[1] \notin PatchPaths THEN "BadRequest"
    ELSE IF patch.value = PyNone THEN "BadRequest"
    ELSE IF \E i \in 1..Len(patch.value[1]) :
               patch.value[1][i].key \notin Columns("parents")
    THEN "KeyError"
    ELSE ""

RECURSIVE AddPatches(_, _)
(* The loop at lines 501-528: [exc, parents], parents being the rows of    *)
(* the session with the entities added so far.                             *)
AddPatches(patches, ps) ==
    IF patches = <<>> THEN [exc |-> "", parents |-> ps]
    ELSE LET e == PatchOpError(Head(patches))
         IN  IF e # "" THEN [exc |-> e, parents |-> ps]
             ELSE AddPatches(
                      Tail(patches),
                      (NextPk(ps) :> NewParent(DictOf(Head(patches).value[1]))) @@ ps)

(* CollectionResource.on_patch, lines 472-555 *)
OnCollectionPatch(ps, ss, patches) ==
    LET s0 == Begin(ps, ss)
        db == Rows(ps, ss)
        a == AddPatches(patches, ps)
        s1 == [s0 EXCEPT !.parents = a.parents]
    IN  IF a.exc # ""
           THEN Outcome(Raised("collection_patch", a.exc, "patches", 0), s1, db, TRUE)
           ELSE IF ~IntegrityOK(s1.parents, s1.subs)
           THEN Outcome(Caught("collection_patch", WriteErrorStatus("IntegrityError"),
                               "IntegrityError", "commit", 0),
                        Rollback(s1, ps, ss), db, TRUE)
           ELSE Outcome(Response("collection_patch", "OK", "", "done", 0, NoData),
                        s1, Commit(s1), FALSE)

CollectionPatch(patches) ==
    pc = "idle" /\ Finish(OnCollectionPatch(parents, subs, patches))

(* Operations: valid ones, ones whose value names no column, and ones      *)
(* with 'op', 'path' or 'value' missing or wrong.                          *)
ValidPatchOps ==
    {PatchOp(Some("add"), Some("/"), Some(<<Item("name", n)>> \o d)) :
        n \in Names, d \in {<<>>, <<Item("deleted", 1)>>}}
NonColumnPatchOps ==
    {PatchOp(Some("add"), Some("/"), Some(<<Item("name", "a"), Item("bogus", 1)>>))}
InvalidPatchOps ==
    {PatchOp(PyNone, Some("/"), Some(<<Item("name", "a")>>)),
     PatchOp(Some("remove"), Some("/"), Some(<<Item("name", "a")>>)),
     PatchOp(Some("add"), PyNone, Some(<<Item("name", "a")>>)),
     PatchOp(Some("add"), Some("/other"), Some(<<Item("name", "a")>>)),
     PatchOp(Some("add"), Some("/"), PyNone)}
PatchLists == SeqsUpTo(ValidPatchOps \cup NonColumnPatchOps \cup InvalidPatchOps, MaxK)

PatchCollection == \E patches \in PatchLists : CollectionPatch(patches)

(* Patches of the collection, and reads of the rows they added. *)
NextCollectionPatch == PatchCollection \/ Get
SpecCollectionPatch == Init /\ [][NextCollectionPatch]_vars

(* ------------------------------------------------------------------------ *)
(* An operation is invalid: 'op' missing or not 'add', 'path' missing or   *)
(* not in the path table, or 'value' missing.                              *)
InvalidOperation(patch) ==
    \/ patch.op # Some("add")
    \/ patch.path = PyNone \/ patch.path[1] \notin PatchPaths
    \/ patch.value = PyNone

(* The rows of ps are in the store as they are, and the other rows of the  *)
(* store are the entities of the operations, one for each.                 *)
AllCommitted(ps, rows, patches) ==
    /\ \A pk \in DOMAIN ps : pk \in DOMAIN rows /\ rows[pk] = ps[pk]
    /\ Cardinality(DOMAIN rows \ DOMAIN ps) = Len(patches)
    /\ \A i \in 1..Len(patches) :
          \E pk \in DOMAIN rows \ DOMAIN ps :
             /\ rows[pk].name = DictOf(patches[i].value[1])["name"]
             /\ rows[pk].deleted = (IF "deleted" \in DOMAIN DictOf(patches[i].value[1])
                                    THEN DictOf(patches[i].value[1])["deleted"] ELSE 0)

(* C20: a collection patch whose list holds an invalid operation is        *)
(* answered BadRequest and persists no entity, the entities of the valid   *)
(* operations before it included; one whose operations are all valid       *)
(* commits the entities of all of them.                                    *)
C20_InvalidOperationPersistsNothing ==
    pc = "idle" =>
       \A patches \in PatchLists :
          \E o \in {OnCollectionPatch(parents, subs, patches)} :
             IF \E i \in 1..Len(patches) : InvalidOperation(patches[i])
             THEN o.resp.status = "BadRequest" /\ o.rows = Rows(parents, subs)
             ELSE /\ o.resp.status = "OK"
                  /\ AllCommitted(parents, o.rows.parents, patches)
                  /\ o.rows.subs = subs


(* ------------------------------------------------------------ the methods *)
Verbs == {"GET", "POST", "PUT", "PATCH", "DELETE"}

(* The verb a handler serves, and whether it is a handler of               *)
(* CollectionResource                                                      *)
Verb(op) ==
    CASE op \in {"list", "get"} -> "GET"
      [] op = "post" -> "POST"
      [] op = "put" -> "PUT"
      [] op \in {"collection_patch", "patch"} -> "PATCH"
      [] op = "delete" -> "DELETE"
OfCollection(op) == op \in {"list", "post", "collection_patch"}

(* The second argument of getattr(self, 'methods', ...), lines 302, 381,   *)
(* 486, 645, 686, 750, 812                                                 *)
DefaultMethods(op) ==
    IF OfCollection(op) THEN {"GET", "POST", "PATCH"} ELSE {"GET", "PUT", "PATCH", "DELETE"}

(* A faulty variant of Allowed: the attribute 'methods' is not read. *)
Allowed_Always(op, methods) == TRUE

(* The condition of the first statement of every handler: methods is the   *)
(* resource's attribute 'methods', None if it has none.                    *)
Allowed(op, methods) ==
    Verb(op) \in (IF methods = PyNone THEN DefaultMethods(op) ELSE methods[1])

(* raise HTTPMethodNotAllowed: the handler ends before it opens a session *)
MethodNotAllowed(op, ps, ss) ==
    [resp |-> Response(op, "MethodNotAllowed", "", "method", 0, NoData),
     rows |-> Rows(ps, ss)]

(* The outcome o of a request to a resource whose attribute 'methods' is   *)
(* methods: the response keeps the attribute.                              *)
Configured(o, methods) ==
    [resp |-> [k \in DOMAIN o.resp \cup {"methods"} |->
                  IF k = "methods" THEN methods ELSE o.resp[k]],
     rows |-> o.rows]

(* A handler, from its first statement on; o is the outcome of the rest *)
Handle(op, methods, ps, ss, o) ==
    Configured(IF Allowed(op, methods) THEN o ELSE MethodNotAllowed(op, ps, ss), methods)

MethodsChoices == {PyNone, Some({"GET"}), Some(Verbs \ {"GET"})}

(* One request to each handler of a resource with the attribute methods *)
Requests(methods) ==
    \/ pc = "idle"
       /\ Finish(Handle("list", methods, parents, subs,
                        OnList(parents, subs,
                               ListRequest(<<>>, PyNone, PyNone, PyNone, PyNone, {}))))
    \/ \E body \in PlainBodies :
          IF Allowed("post", methods)
          THEN PostBegin(body, EmptyDict)
          ELSE pc = "idle"
               /\ Finish(Configured(MethodNotAllowed("post", parents, subs), methods))
    \/ \E patch \in ValidPatchOps :
          /\ pc = "idle"
          /\ NextPk(parents) <= MaxParents
          /\ Finish(Handle("collection_patch", methods, parents, subs,
                           OnCollectionPatch(parents, subs, <<patch>>)))
    \/ \E kwargs \in IdKwargs :
          pc = "idle"
          /\ Finish(Handle("get", methods, parents, subs, OnGet(parents, subs, kwargs)))
    \/ \E kwargs \in IdKwargs, body \in PlainBodies :
          pc = "idle"
          /\ Finish(Handle("put", methods, parents, subs,
                           OnPut(parents, subs, kwargs, body, EmptyDict)))
    \/ \E kwargs \in IdKwargs :
          pc = "idle"
          /\ Finish(Handle("patch", methods, parents, subs,
                           OnPatch(parents, subs, kwargs,
                                   PatchRequest(<<>>, "none", EmptyDict,
                                                <<Item("deleted", 1)>>))))
    \/ \E kwargs \in IdKwargs, mark_deleted \in BOOLEAN :
          pc = "idle"
          /\ Finish(Handle("delete", methods, parents, subs,
                           OnDelete(parents, subs, kwargs, <<>>, "none", mark_deleted)))

(* Requests to resources with and without the attribute 'methods'. *)
NextMethods ==
    \/ \E methods \in MethodsChoices : Requests(methods)
    \/ PostInnerCommit
    \/ PostOuterCommit
SpecMethods == InitFixture /\ [][NextMethods]_vars

(* ------------------------------------------------------------------------ *)
(* The configured 'methods' of the resource a handler belongs to: the      *)
(* stated defaults when it has none of its own.                            *)
ConfiguredMethods(op, methods) ==
    IF methods # PyNone THEN methods[1]
    ELSE IF op \in {"list", "post", "collection_patch"} THEN {"GET", "POST", "PATCH"}
    ELSE {"GET", "PUT", "PATCH", "DELETE"}

(* C17: every handler answers MethodNotAllowed when the resource's         *)
(* 'methods' leaves its verb out, before anything else, and the store is   *)
(* as it was; without the attribute the collection allows GET, POST and    *)
(* PATCH and the single resource GET, PUT, PATCH and DELETE, so no handler *)
(* refuses its own verb.                                                   *)
C17_ExcludedVerbIsRejected ==
    [][(pc = "idle" /\ pc' = "idle" /\ "methods" \in DOMAIN resp')
          => /\ Verb(resp'.op) \notin ConfiguredMethods(resp'.op, resp'.methods)
                   => /\ resp'.status = "MethodNotAllowed"
                      /\ resp'.stage = "method"
                      /\ parents' = parents /\ subs' = subs
                      /\ sess' = NoSess
             /\ Verb(resp'.op) \in ConfiguredMethods(resp'.op, resp'.methods)
                   => resp'.status # "MethodNotAllowed"
             /\ resp'.methods = PyNone => resp'.status # "MethodNotAllowed"]_vars

(* A delete of a resource whose methods are GET alone was refused, and     *)
(* the two rows the store held are still there.                            *)
C17_Witness ==
    /\ resp.op = "delete"
    /\ resp.status = "MethodNotAllowed"
    /\ "methods" \in DOMAIN resp
    /\ resp.methods = Some({"GET"})
    /\ DOMAIN parents = {1, 2}



(* -------------------------------------- datetime columns on write paths *)
(* The handlers that decode a DateTime column of a request body.          *)
WritePaths == {"post", "collection_patch", "put", "patch"}

(* The loop of on_patch at lines 522-526, for a key of a DateTime column:  *)
(* the format always ends in "Z", naive_datetimes is not read, and None is *)
(* given to strptime as it is (TypeError).                                 *)
PatchValue(wire) ==
    IF wire = PyNone THEN [exc |-> "TypeError", value |-> NoneValue]
    ELSE IF StrpMatches(wire[1], DateTimeFormat \o <<"Z">>)
         THEN [exc |-> "", value |-> [type |-> "datetime", day |-> wire[1][1].num,
                                      hour |-> wire[1][3].num,
                                      second |-> wire[1][7].num, us |-> 0, tz |-> ""]]
         ELSE [exc |-> "ValueError", value |-> NoneValue]

(* What a write path makes of the wire value of a DateTime column: on_post *)
(* calls CollectionResource.deserialize (line 384), on_put and the single  *)
(* on_patch call SingleResource.deserialize (lines 764, 837), the          *)
(* collection on_patch decodes in its own loop.                            *)
DecodeOnPath(path, naive, wire) ==
    IF path = "collection_patch" THEN PatchValue(wire)
    ELSE DeserializeValue("datetime", naive, wire)

(* A DateTime attribute sent to one of the write paths *)
WrittenAttributes ==
    {[op |-> p, column |-> "datetime", naive |-> n, value |-> v] :
        p \in WritePaths, n \in BOOLEAN, v \in DateTimes}

InitWriteCodec ==
    /\ schema = "nobackfill"
    /\ parents = EmptyTable
    /\ subs = EmptyTable
    /\ pc = "idle"
    /\ sess = NoSess
    /\ cur \in WrittenAttributes
    /\ resp = [op |-> "none", wire |-> PyNone, exc |-> "", value |-> NoneValue]

(* The write path decodes the wire value that serialize wrote *)
DecodeWritten ==
    /\ pc = "serialized"
    /\ pc' = "decoded"
    /\ \E d \in {DecodeOnPath(cur.op, cur.naive, resp.wire)} :
          resp' = [resp EXCEPT !.op = cur.op, !.exc = d.exc, !.value = d.value]
    /\ UNCHANGED <<schema, parents, subs, sess, cur>>

NextWriteCodec == SerializeAttribute \/ DecodeWritten
SpecWriteCodec == InitWriteCodec /\ [][NextWriteCodec]_vars

(* ------------------------------------------------------------------------ *)
(* C21: on each of the four write paths, a DateTime attribute decodes from *)
(* the wire form serialize writes for it, without the trailing "Z" if its  *)
(* name is in naive_datetimes and with it if not: no error is raised, and  *)
(* the day, the hour and the second are those of the value.                *)
C21_WritePathsDecodeWireForm ==
    pc = "decoded" =>
       /\ resp.wire = Some(StrfDateTime(cur.value)
                              \o (IF cur.naive THEN <<>> ELSE <<Sep("Z")>>))
       /\ resp.exc = ""
       /\ resp.value.day = cur.value.day
       /\ resp.value.hour = cur.value.hour
       /\ resp.value.second = cur.value.second

(* The same, the collection patch left out. *)
C21_OtherPathsDecodeWireForm ==
    (pc = "decoded" /\ cur.op # "collection_patch") =>
       /\ resp.exc = ""
       /\ resp.value.day = cur.value.day
       /\ resp.value.second = cur.value.second



(* --------------------------------------------------- deserialize, nested *)
(* Items of a nested payload: a column of the related class, a key that    *)
(* names nothing, the name of a property of the parent class, "pk", and a  *)
(* key that itself nests payloads.                                         *)
NestedItems ==
    {Item("x", 1), Item("bogus", 1), Item("fullname", "f"), Item("pk", 1),
     Item("children", <<<<Item("x", 2)>>>>)}
NestedPayloads ==
    {<<i>> : i \in NestedItems}
      \cup {<<Item("x", 1), i>> : i \in NestedItems \ {Item("x", 1)}}

(* Items of a payload: a column, a key that names nothing, a property,     *)
(* "pk", and nested payloads under the two relationships.                  *)
PayloadItems ==
    {Item("name", "a"), Item("bogus", 1), Item("fullname", "f"), Item("pk", 1),
     Item("children", <<>>)}
      \cup {Item("children", <<p>>) : p \in NestedPayloads}
      \cup {Item("profile", p) : p \in NestedPayloads}
Payloads ==
    {<<i>> : i \in PayloadItems}
      \cup {<<Item("deleted", 1), i>> : i \in PayloadItems}

DeserializeCalls ==
    {[op |-> "deserialize", single |-> s, allow_recursion |-> a, data |-> d] :
        s \in BOOLEAN, a \in BOOLEAN, d \in Payloads}

NoResult == PyList(<<EmptyDict, <<>>>>)

InitDeserialize ==
    /\ schema = "nobackfill"
    /\ parents = EmptyTable
    /\ subs = EmptyTable
    /\ pc = "idle"
    /\ sess = NoSess
    /\ cur \in DeserializeCalls
    /\ resp = [op |-> "none", result |-> NoResult]

(* CollectionResource.deserialize(self.model, {}, data, allow_recursion) *)
DeserializeCollection ==
    /\ pc = "idle" /\ ~cur.single
    /\ pc' = "deserialized"
    /\ resp' = [op |-> "collection",
                result |-> CollectionDeserialize("parents", EmptyDict, cur.data,
                                                 cur.allow_recursion)]
    /\ UNCHANGED <<schema, parents, subs, sess, cur>>

(* SingleResource.deserialize(data, allow_recursion) *)
DeserializeSingle ==
    /\ pc = "idle" /\ cur.single
    /\ pc' = "deserialized"
    /\ resp' = [op |-> "single",
                result |-> SingleDeserialize(cur.data, cur.allow_recursion)]
    /\ UNCHANGED <<schema, parents, subs, sess, cur>>

NextDeserialize == DeserializeCollection \/ DeserializeSingle
SpecDeserialize == InitDeserialize /\ [][NextDeserialize]_vars

(* ------------------------------------------------------------------------ *)
(* The key names no column, no property and no relationship of the class. *)
NamesNothing(model, key) ==
    key \notin Columns(model) \cup Properties(model) \cup Relationships(model)

(* The attribute mappings an entry of the linked mapping holds *)
NestedMappings(entry) ==
    IF UseList(entry.key) THEN {entry.value[k] : k \in 1..Len(entry.value)}
    ELSE {entry.value}

(* C22: deserialize recurses one level at most.  Every entry of the linked *)
(* mapping is under a relationship of the class and holds, for each        *)
(* related entity, only columns of that entity's class (or its own         *)
(* properties): no key of a nested payload that is something else, a       *)
(* nested relationship included, is kept.  With recursion disallowed the   *)
(* linked mapping is empty.  A key of the payload that names no column, no *)
(* property and no relationship is not in the attributes.                  *)
C22_DeserializeOneLevel ==
    pc = "deserialized" =>
       LET attributes == resp.result.val[1]
           linked == resp.result.val[2]
       IN  /\ \A i \in 1..Len(linked) :
                 /\ linked[i].key \in Relationships("parents")
                 /\ \A d \in NestedMappings(linked[i]) :
                       DOMAIN d \subseteq Columns(linked[i].key)
                                             \cup Properties(linked[i].key)
           /\ ~cur.allow_recursion => linked = <<>>
           /\ \A j \in 1..Len(cur.data) :
                 NamesNothing("parents", cur.data[j].key)
                    => cur.data[j].key \notin DOMAIN attributes



(* ------------------------------------------------- path-bound arguments *)
(* attr_map of the resource: the path argument "flag" is the column        *)
(* "deleted"; an argument it does not name maps to itself.                 *)
AttrMap == "flag" :> "deleted"
Mapped(key) == IF key \in DOMAIN AttrMap THEN AttrMap[key] ELSE key

(* The loops at lines 224-229 (deserialize) and 517-521 (on_patch) over    *)
(* kwargs.items(): [exc, val], val the attributes of the path arguments.   *)
(* An argument whose mapped name is no attribute of the model is an        *)
(* HTTPInternalServerError.                                                *)
PathAttributes(model, kwargs) ==
    IF \E p \in DOMAIN kwargs : AttrKind(model, Mapped(p)) \in {"absent", "relationship"}
    THEN [exc |-> "InternalServerError", val |-> EmptyDict]
    ELSE IF \E p \in DOMAIN kwargs : AttrKind(model, Mapped(p)) = "other"
    THEN [exc |-> "KeyError", val |-> EmptyDict]
    ELSE [exc |-> "",
          val |-> [k \in {Mapped(p) : p \in DOMAIN kwargs} |->
                      kwargs[CHOOSE p \in DOMAIN kwargs : Mapped(p) = k]]]

(* on_post, lines 384-389, without post_defaults: the attributes that      *)
(* the constructor self.model is called with.                            *)
PostAttributes(kwargs, body) ==
    LET path_data == PathAttributes("parents", kwargs)
    IN  IF path_data.exc # "" THEN path_data
        ELSE [exc |-> "",
              val |-> CollectionDeserialize("parents", path_data.val, body, TRUE).val[1]]

(* on_patch, lines 516-527, for one 'add' operation: the args that the    *)
(* constructor model is called with.                                      *)
PatchArgs(kwargs, patch_value) ==
    LET args == PathAttributes("parents", kwargs)
    IN  IF args.exc # "" THEN args
        ELSE IF \E i \in 1..Len(patch_value) :
                   patch_value[i].key \notin Columns("parents")
        THEN [exc |-> "KeyError", val |-> EmptyDict]
        ELSE [exc |-> "", val |-> DictOf(patch_value) @@ args.val]

(* Path arguments of a route: none, a column by its own name, a column     *)
(* through attr_map, two columns, and a name that is no attribute.         *)
PathKwargs ==
    {EmptyDict, "name" :> "b", "deleted" :> 1, "flag" :> 1,
     ("name" :> "b") @@ ("flag" :> 1), "bogus" :> 1}

(* Bodies and patch values: a name, a value for "deleted", both or none *)
PathBodies ==
    {<<>>}
      \cup {<<Item("name", n)>> : n \in Names}
      \cup {<<Item("deleted", d)>> : d \in 0..1}
      \cup {<<Item("name", n), Item("deleted", d)>> : n \in Names, d \in 0..1}

PathRequests ==
    {[op |-> o, kwargs |-> k, body |-> b] :
        o \in {"post", "collection_patch"}, k \in PathKwargs, b \in PathBodies}

InitPathBound ==
    /\ schema = "nobackfill"
    /\ parents = EmptyTable
    /\ subs = EmptyTable
    /\ pc = "idle"
    /\ sess = NoSess
    /\ cur \in PathRequests
    /\ resp = [op |-> "none", exc |-> "", attributes |-> EmptyDict]

(* on_post up to the call of self.model with the attributes, line 389 *)
InstantiatePost ==
    /\ pc = "idle" /\ cur.op = "post"
    /\ pc' = "instantiated"
    /\ \E a \in {PostAttributes(cur.kwargs, cur.body)} :
          resp' = [op |-> "post", exc |-> a.exc, attributes |-> a.val]
    /\ UNCHANGED <<schema, parents, subs, sess, cur>>

(* on_patch up to the call of model with the args, line 527 *)
InstantiatePatch ==
    /\ pc = "idle" /\ cur.op = "collection_patch"
    /\ pc' = "instantiated"
    /\ \E a \in {PatchArgs(cur.kwargs, cur.body)} :
          resp' = [op |-> "collection_patch", exc |-> a.exc, attributes |-> a.val]
    /\ UNCHANGED <<schema, parents, subs, sess, cur>>

NextPathBound == InstantiatePost \/ InstantiatePatch
SpecPathBound == InitPathBound /\ [][NextPathBound]_vars

(* ------------------------------------------------------------------------ *)
(* The keys the body supplies, and the value it gives a key *)
BodyKeys(body) == {body[i].key : i \in 1..Len(body)}
BodyValue(body, key) == body[CHOOSE i \in 1..Len(body) : body[i].key = key].value

(* The path arguments whose mapped name is the key *)
BoundTo(kwargs, key) == {p \in DOMAIN kwargs : Mapped(p) = key}

(* C23: in collection create and in a collection patch 'add', the entity   *)
(* is instantiated with an attribute for every key of the body and for     *)
(* every mapped name of a path-bound argument; a key the body supplies     *)
(* has the body's value, also when a path-bound argument maps to it, and   *)
(* a path-bound value is kept only for a key the body does not supply.     *)
C23_BodyOverridesPathBound ==
    (pc = "instantiated" /\ resp.exc = "") =>
       /\ DOMAIN resp.attributes =
             BodyKeys(cur.body) \cup {Mapped(p) : p \in DOMAIN cur.kwargs}
       /\ \A k \in DOMAIN resp.attributes :
             IF k \in BodyKeys(cur.body)
             THEN resp.attributes[k] = BodyValue(cur.body, k)
             ELSE \E p \in BoundTo(cur.kwargs, k) : resp.attributes[k] = cur.kwargs[p]

(* A create or a patch whose body gives "deleted" another value than the  *)
(* path argument mapped to it, instantiated with the body's value.         *)
C23_Witness ==
    /\ pc = "instantiated" /\ resp.exc = ""
    /\ cur.kwargs = ("name" :> "b") @@ ("flag" :> 1)
    /\ cur.body = <<Item("name", "a"), Item("deleted", 0)>>
    /\ resp.attributes = [name |-> "a", deleted |-> 0]

====
